---- MODULE Spec2Model ----
(***************************************************************************)
(* SunWatcher (sunsetscout): the elevation service in its two strategies   *)
(* (provider batches with fallback, terrain tiles), the shared utilities   *)
(* asyncPool / fetchWithRetry / chunk, and the analysis runs started by    *)
(* the UI.                                                                 *)
(*                                                                         *)
(* Asynchronous functions are modelled at their suspension points: every   *)
(* action is what runs between two awaits (one event-loop task or less).   *)
(* JavaScript null and undefined are the values Null and Undefined, kept   *)
(* apart from every elevation (elevations of the model are >= 0).          *)
(* Sequences are 1-based; the code's 0-based indices are shifted by one.   *)
(***************************************************************************)
EXTENDS Integers, Sequences, FiniteSets, TLC

\* ---------------------------------------------------------------- bounds

\* Longest input list handed to one provider-strategy fetchElevations call.
MaxPoints == 3
\* Longest input list of the pool specification (points of one coordinate).
MaxPoolPoints == 5
\* Longest input list handed to a call when two calls run concurrently.
MaxConcPoints == 1
MaxTilePoints == 2
MaxDownloads == 2
MaxRuns == 2
MaxCandidates == 2
MaxSamples == 2

\* ------------------------------------------------------------- constants

\* elevation.js BATCH_SIZE is 100; scaled to 2 so that several batches, and
\* a last partial batch, occur within MaxPoints points (the code's merge loop
\* and chunk() depend on BATCH_SIZE only through this arithmetic).
BATCH_SIZE == 2
CONCURRENCY == 2
\* fetchWithRetry's default maxRetries, and the value the batch fetchers pass.
DefaultMaxRetries == 3
BatchMaxRetries == 2

Null == -1
Undefined == -2

\* Latitudes in units of 0.000005 degrees; the longitude is 0 throughout.
Lats == 0..2
Point(lat) == [lat |-> lat, lng |-> 0]
AllPoints == {Point(lat) : lat \in Lats}

Min(a, b) == IF a < b THEN a ELSE b

\* Number.prototype.toFixed(5) on a coordinate given in units of 0.000005:
\* the result in units of 0.00001, rounded to nearest (0.000005 -> 0.00001).
toFixed5(x) == (x + 1) \div 2

cacheKey(lat, lng) == <<toFixed5(lat), toFixed5(lng)>>

KeyOf(p) == cacheKey(p.lat, p.lng)
AllKeys == {KeyOf(p) : p \in AllPoints}

\* The terrain the providers and the tiles describe, in metres, at a
\* coordinate rounded to 5 decimals. Sea level (0) is a legal elevation.
Terrain(key) == key[1] * 100

isNullish(v) == v \in {Null, Undefined}

\* arr[i] in JavaScript: undefined outside the array.
At(arr, i) == IF i \in DOMAIN arr THEN arr[i] ELSE Undefined

\* ----------------------------------------------------------------- state

VARIABLES
  elevationCache,  \* elevation.js: Map key -> elevation (a function on the keys present)
  call,            \* per fetchElevations invocation (provider strategy): its locals,
                   \* startCache (history): the cache as the call found it,
                   \* cleared (history): the cache was cleared while the call ran
  resolvedKeys,    \* history: keys some call resolved to non-null since the last clear
  rt,              \* one fetchWithRetry(url, options, maxRetries) invocation on its own
  tileImageCache,  \* viewshed.js (tile module): Map tile key -> promise (its index in promises)
  promises,        \* every tile promise created so far: [key, st]
  tileElevationCache, \* viewshed.js (tile module): elevationCache, key -> elevation
  tcall,           \* per fetchElevations invocation (tile strategy): its locals
  downloads,       \* history: per tile key, downloads started since the last clear
  run,             \* main.js: per handleSearch / runAnalysis invocation, the await it is at
  ui,              \* ui.js: state and what the page displays
  staleUpdate,     \* history: a run updated the page after a later run had started
  vs,              \* viewshed.js: one analyzeViewshed invocation, its locals
  fn,              \* one call of a pure function: its arguments and its result
  geo            \* geocoder.js: the clock, lastRequestTime, the geocode() calls, the requests sent

providerVars == <<elevationCache, call, resolvedKeys>>
tileVars == <<tileImageCache, promises, tileElevationCache, tcall, downloads>>
runVars == <<run, ui, staleUpdate>>
vars == <<elevationCache, call, resolvedKeys, rt, tileVars, runVars, vs, fn, geo>>

Calls == 1..2

\* A batch's pool promise: st is where fn(batch) stands ("none": not created,
\* "created": fn not yet called, "primary" / "fallback": inside fetchWithRetry
\* for that provider, a request out or its backoff running, "primaryJson" /
\* "fallbackJson": awaiting response.json(), "settled"), attempt is
\* fetchWithRetry's loop variable, ret the array fn resolved with.
IdleTask == [st |-> "none", attempt |-> 0, ret |-> <<>>]

IdleCall ==
  [pc |-> "idle", points |-> <<>>, results |-> <<>>, uncachedIndices |-> <<>>,
   completed |-> 0, progress |-> <<>>,
   poolPc |-> "none", nextItem |-> 1, executing |-> {}, task |-> <<>>,
   startCache |-> <<>>, cleared |-> FALSE]

\* ---------------------------------------------------------------- helpers

RECURSIVE chunkFrom(_, _, _)
chunkFrom(arr, size, i) ==
  IF i >= Len(arr) THEN <<>>
  ELSE <<SubSeq(arr, i + 1, Min(i + size, Len(arr)))>> \o chunkFrom(arr, size, i + size)

chunk(arr, size) == chunkFrom(arr, size, 0)

Indices(pts) == [i \in 1..Len(pts) |-> i]

\* Mutant: the partition loop without its cache test, every point a miss.
UncachedOf_IgnoresCache(pts, cache) == Indices(pts)

\* The partition loop of fetchElevations: indices whose key is not cached.
UncachedOf(pts, cache) ==
  SelectSeq(Indices(pts), LAMBDA i : KeyOf(pts[i]) \notin DOMAIN cache)

\* A slot of `new Array(n)` that was never assigned.
EmptySlot == [lat |-> Undefined, lng |-> Undefined, elevation |-> Undefined]

\* results after the partition loop: cache hits filled, the rest empty slots.
HitsOf(pts, cache) ==
  [i \in 1..Len(pts) |->
     IF KeyOf(pts[i]) \in DOMAIN cache
     THEN [lat |-> pts[i].lat, lng |-> pts[i].lng, elevation |-> cache[KeyOf(pts[i])]]
     ELSE EmptySlot]

UncachedPoints(c) == [k \in 1..Len(call[c].uncachedIndices) |->
                        call[c].points[call[c].uncachedIndices[k]]]

Batches(c) == chunk(UncachedPoints(c), BATCH_SIZE)

CacheSet(cache, key, v) ==
  [k \in DOMAIN cache \cup {key} |-> IF k = key THEN v ELSE cache[k]]

\* ------------------------------------------------- utils.js fetchWithRetry

\* What one HTTP attempt can come back with: a network error (fetch rejects),
\* a non-2xx response, a 2xx response.
Outcomes == {"neterr", "non2xx", "ok"}

\* What the body of a 2xx response can be: the expected data, JSON without
\* the expected field, or not JSON at all (response.json() rejects).
Bodies == {"data", "nofield", "badjson"}

\* fetch() resolved and response.ok holds.
ResponseOk(o) == o = "ok"

\* Mutant: one retry more before the error is thrown.
fetchWithRetryStep_ExtraRetry(attempt, maxRetries, o) ==
  IF ResponseOk(o) THEN "return"
  ELSE IF attempt = maxRetries + 1 THEN "throw"
  ELSE "retry"

\* Mutant: the error is thrown on the first failure, without any retry.
fetchWithRetryStep_NoRetry(attempt, maxRetries, o) ==
  IF ResponseOk(o) THEN "return" ELSE "throw"

\* One iteration of fetchWithRetry's loop at loop variable `attempt`:
\* "return" the response, "throw" the error, or wait and "retry".
fetchWithRetryStep(attempt, maxRetries, o) ==
  IF ResponseOk(o) THEN "return"
  ELSE IF attempt = maxRetries THEN "throw"
  ELSE "retry"

\* The backoff before the next attempt, in milliseconds.
Pow2(n) == IF n = 0 THEN 1 ELSE IF n = 1 THEN 2 ELSE IF n = 2 THEN 4 ELSE 8

\* Mutant: the same wait before every retry.
BackoffMs_Constant(attempt) == 1000

\* 1000 * Math.pow(2, attempt)
BackoffMs(attempt) == 1000 * Pow2(attempt)

IdleRetry == [pc |-> "idle", caller |-> "none", maxRetries |-> 0, attempt |-> 0,
              issued |-> 0, waits |-> <<>>, responses |-> <<>>]

\* The call sites of fetchWithRetry and the maxRetries each passes: geocode
\* and fetchWeather leave the default, the two batch fetchers pass 2.
RetryCallers == {"geocode", "fetchWeather", "fetchBatchOpenMeteo", "fetchBatchOpenElevation"}
IsBatchCaller(caller) == caller \in {"fetchBatchOpenMeteo", "fetchBatchOpenElevation"}
MaxRetriesOf(caller) == IF IsBatchCaller(caller) THEN BatchMaxRetries ELSE DefaultMaxRetries

\* fetchWithRetry(url, options, maxRetries) up to its first await: the first
\* fetch() is issued.
fetchWithRetry(caller) ==
  /\ rt.pc = "idle"
  /\ rt' = [IdleRetry EXCEPT !.pc = "fetching", !.caller = caller,
                             !.maxRetries = MaxRetriesOf(caller), !.issued = 1]

\* The request comes back: return the response, throw, or start the backoff
\* timer. issued counts the fetch() calls, waits logs the timers set (ms),
\* responses what came back.
RetryResponds(o) ==
  LET step == fetchWithRetryStep(rt.attempt, rt.maxRetries, o) IN
  /\ rt.pc = "fetching"
  /\ rt' = [rt EXCEPT
       !.responses = Append(rt.responses, o),
       !.pc = CASE step = "return" -> "returned"
                [] step = "throw" -> "thrown"
                [] OTHER -> "waiting",
       !.waits = IF step = "retry" THEN Append(rt.waits, BackoffMs(rt.attempt))
                 ELSE rt.waits]

\* The backoff timer fires: attempt++ and the next fetch() is issued.
RetryTimerFires ==
  /\ rt.pc = "waiting"
  /\ rt' = [rt EXCEPT !.pc = "fetching", !.attempt = rt.attempt + 1,
                      !.issued = rt.issued + 1]

\* The caller took the response or the error.
RetryCallerResumes ==
  /\ rt.pc \in {"returned", "thrown"}
  /\ rt' = IdleRetry

\* ------------------------------------------ elevation.js provider fetchers

Returned(v) == [threw |-> FALSE, value |-> v]
Threw == [threw |-> TRUE, value |-> <<>>]

\* fetchBatchOpenMeteo after fetchWithRetry returned a response with body o:
\* the elevation array, [] when the field is missing, Threw when json() rejects.
fetchBatchOpenMeteo(batch, o) ==
  CASE o = "data"    -> Returned([i \in 1..Len(batch) |-> Terrain(KeyOf(batch[i]))])
    [] o = "nofield" -> Returned(<<>>)
    [] OTHER         -> Threw

\* fetchBatchOpenElevation after fetchWithRetry returned a response with body o.
fetchBatchOpenElevation(batch, o) ==
  CASE o = "data"    -> Returned([i \in 1..Len(batch) |-> Terrain(KeyOf(batch[i]))])
    [] OTHER         -> Threw

\* fetchBatchWithFallback's last line.
AllNull(batch) == [i \in 1..Len(batch) |-> Null]

\* --------------------------------------------------- utils.js asyncPool

\* Mutant: the pool suspends only once it is over the limit.
PoolFull_Strict(executing, limit) == Cardinality(executing) > limit

\* The check that suspends asyncPool's loop on Promise.race.
PoolFull(executing, limit) == Cardinality(executing) >= limit

\* asyncPool's loop body for the next item: create its promise (the call of
\* fn is deferred to a microtask), add it to `executing`, and suspend on
\* Promise.race when the pool is full.
PoolLaunch(c) ==
  LET k == call[c] IN
  /\ k.pc = "pool" /\ k.poolPc = "loop"
  /\ k.nextItem <= Len(k.task)
  /\ LET ex == k.executing \cup {k.nextItem} IN
     call' = [call EXCEPT ![c] =
       [k EXCEPT !.task[k.nextItem].st = "created",
                 !.executing = ex,
                 !.nextItem = k.nextItem + 1,
                 !.poolPc = IF PoolFull(ex, CONCURRENCY) THEN "race" ELSE "loop"]]
  /\ UNCHANGED <<elevationCache, resolvedKeys>>

\* The loop ran out of items: return Promise.all(results).
PoolAwaitAll(c) ==
  LET k == call[c] IN
  /\ k.pc = "pool" /\ k.poolPc = "loop"
  /\ k.nextItem > Len(k.task)
  /\ call' = [call EXCEPT ![c].poolPc = "all"]
  /\ UNCHANGED <<elevationCache, resolvedKeys>>

\* ------------------------------------------ elevation.js fetchElevations

\* The callback passed to asyncPool has resolved for batch b with
\* `elevations`: count the batch, report progress, settle the pool promise
\* (its `clean` leaves `executing`, a loop suspended on the race resumes).
BatchSettled(k, b, elevations) ==
  LET done == k.completed + Len(chunk(
                [j \in 1..Len(k.uncachedIndices) |-> k.points[k.uncachedIndices[j]]],
                BATCH_SIZE)[b]) IN
  [k EXCEPT !.task[b].st = "settled",
            !.task[b].attempt = 0,
            !.task[b].ret = elevations,
            !.completed = done,
            !.progress = Append(k.progress, <<done, Len(k.points)>>),
            !.executing = k.executing \ {b},
            !.poolPc = IF k.poolPc = "race" THEN "loop" ELSE k.poolPc]

\* The deferred call of fn(batch): fetchBatchWithFallback calls
\* fetchBatchOpenMeteo, whose fetchWithRetry issues its first request.
TaskStart(c, b) ==
  LET k == call[c] IN
  /\ k.pc = "pool" /\ b \in DOMAIN k.task
  /\ k.task[b].st = "created"
  /\ call' = [call EXCEPT ![c] =
       [k EXCEPT !.task[b].st = "primary",
                 !.task[b].attempt = 0]]
  /\ UNCHANGED <<elevationCache, resolvedKeys>>

\* fetchBatchWithFallback after the primary provider threw: the first
\* request to the fallback provider is issued.
StartFallback(k, b) ==
  [k EXCEPT !.task[b].st = "fallback",
            !.task[b].attempt = 0]

\* An HTTP attempt of the primary provider for batch b comes back with o.
PrimaryResponds(c, b, o) ==
  LET k == call[c]
      t == k.task[b]
      step == fetchWithRetryStep(t.attempt, BatchMaxRetries, o)
  IN
  /\ k.pc = "pool" /\ b \in DOMAIN k.task
  /\ t.st = "primary"
  /\ call' = [call EXCEPT ![c] =
       CASE step = "retry" -> [k EXCEPT !.task[b].attempt = t.attempt + 1]
         [] step = "throw" -> StartFallback(k, b)
         [] OTHER -> [k EXCEPT !.task[b].st = "primaryJson", !.task[b].attempt = 0]]
  /\ UNCHANGED <<elevationCache, resolvedKeys>>

\* response.json() of the primary provider's response settles with body o.
PrimaryBody(c, b, o) ==
  LET k == call[c]
      got == fetchBatchOpenMeteo(Batches(c)[b], o)
  IN
  /\ k.pc = "pool" /\ b \in DOMAIN k.task
  /\ k.task[b].st = "primaryJson"
  /\ call' = [call EXCEPT ![c] =
       IF got.threw THEN StartFallback(k, b) ELSE BatchSettled(k, b, got.value)]
  /\ UNCHANGED <<elevationCache, resolvedKeys>>

\* An HTTP attempt of the fallback provider for batch b comes back with o.
FallbackResponds(c, b, o) ==
  LET k == call[c]
      t == k.task[b]
      step == fetchWithRetryStep(t.attempt, BatchMaxRetries, o)
  IN
  /\ k.pc = "pool" /\ b \in DOMAIN k.task
  /\ t.st = "fallback"
  /\ call' = [call EXCEPT ![c] =
       CASE step = "retry" -> [k EXCEPT !.task[b].attempt = t.attempt + 1]
         [] step = "throw" -> BatchSettled(k, b, AllNull(Batches(c)[b]))
         [] OTHER -> [k EXCEPT !.task[b].st = "fallbackJson", !.task[b].attempt = 0]]
  /\ UNCHANGED <<elevationCache, resolvedKeys>>

\* response.json() of the fallback provider's response settles with body o.
FallbackBody(c, b, o) ==
  LET k == call[c]
      got == fetchBatchOpenElevation(Batches(c)[b], o)
  IN
  /\ k.pc = "pool" /\ b \in DOMAIN k.task
  /\ k.task[b].st = "fallbackJson"
  /\ call' = [call EXCEPT ![c] =
       IF got.threw THEN BatchSettled(k, b, AllNull(Batches(c)[b]))
       ELSE BatchSettled(k, b, got.value)]
  /\ UNCHANGED <<elevationCache, resolvedKeys>>

\* Mutant: the move to the next batch comes one slot late.
NextSlot_OffByOne(batchIdx, withinBatch) ==
  IF withinBatch + 1 > BATCH_SIZE THEN <<batchIdx + 1, 0>>
  ELSE <<batchIdx, withinBatch + 1>>

\* The end of the merge loop's body: withinBatch++ and the move to the next
\* batch. batchIdx is 1-based here, withinBatch 0-based as in the code.
NextSlot(batchIdx, withinBatch) ==
  IF withinBatch + 1 >= BATCH_SIZE THEN <<batchIdx + 1, 0>>
  ELSE <<batchIdx, withinBatch + 1>>

\* Mutant: a truthiness test (if (elev)) in place of elev != null, which
\* takes sea level for a missing value.
MergeCache_Truthy(cache, key, elev) ==
  IF ~isNullish(elev) /\ elev # 0 THEN CacheSet(cache, key, elev) ELSE cache

\* What the merge loop stores for a resolved elevation: only non-null
\* elevations enter the cache.
MergeCache(cache, key, elev) ==
  IF ~isNullish(elev) THEN CacheSet(cache, key, elev) ELSE cache

\* "Merge results back": the loop over uncachedIndices from position j on.
\* Yields the cache and the results after the loop.
RECURSIVE MergeFrom(_, _, _, _, _, _)
MergeFrom(k, batchResults, j, slot, cache, res) ==
  IF j > Len(k.uncachedIndices) THEN [cache |-> cache, results |-> res]
  ELSE
    LET originalIdx == k.uncachedIndices[j]
        elev == IF slot[1] \in DOMAIN batchResults
                THEN At(batchResults[slot[1]], slot[2] + 1) ELSE Undefined
        pt == k.points[originalIdx]
        entry == [lat |-> pt.lat, lng |-> pt.lng,
                  elevation |-> IF ~isNullish(elev) THEN elev ELSE Null]
    IN MergeFrom(k, batchResults, j + 1, NextSlot(slot[1], slot[2]),
                 MergeCache(cache, KeyOf(pt), elev),
                 [res EXCEPT ![originalIdx] = entry])

\* results.filter(r => r && r.elevation != null).length
ValidCount(res) ==
  Cardinality({i \in DOMAIN res : res[i] # EmptySlot /\ ~isNullish(res[i].elevation)})

InputLists(n) == UNION {[1..m -> AllPoints] : m \in 0..n}

\* fetchElevations(points, onProgress) up to its first await: the partition
\* into cache hits and misses, the early return when nothing is missing,
\* otherwise the batches and the call of asyncPool.
fetchElevations(c, pts) ==
  LET k == call[c]
      unc == UncachedOf(pts, elevationCache)
      hits == HitsOf(pts, elevationCache)
      n == Len(pts)
      nb == Len(chunk(unc, BATCH_SIZE))
  IN
  /\ k.pc = "idle"
  /\ call' = [call EXCEPT ![c] =
       IF Len(unc) = 0
       THEN [IdleCall EXCEPT !.pc = "returned", !.points = pts, !.results = hits,
                             !.progress = << <<n, n>> >>,
                             !.startCache = elevationCache]
       ELSE [IdleCall EXCEPT !.pc = "pool", !.points = pts, !.results = hits,
                             !.uncachedIndices = unc,
                             !.completed = n - Len(unc),
                             !.poolPc = "loop",
                             !.task = [b \in 1..nb |-> IdleTask],
                             !.startCache = elevationCache]]
  /\ UNCHANGED <<elevationCache, resolvedKeys>>

\* asyncPool's Promise.all resolved (every batch settled, results in item
\* order): merge, fill the cache, then throw when nothing is valid or return.
MergeAndReturn(c) ==
  LET k == call[c]
      batchResults == [b \in DOMAIN k.task |-> k.task[b].ret]
      m == MergeFrom(k, batchResults, 1, <<1, 0>>, elevationCache, k.results)
  IN
  /\ k.pc = "pool" /\ k.poolPc = "all"
  /\ \A b \in DOMAIN k.task : k.task[b].st = "settled"
  /\ elevationCache' = m.cache
  /\ resolvedKeys' = resolvedKeys \cup
       {KeyOf(k.points[k.uncachedIndices[j]]) : j \in
          {j \in DOMAIN k.uncachedIndices :
             ~isNullish(m.results[k.uncachedIndices[j]].elevation)}}
  /\ call' = [call EXCEPT ![c] =
       [k EXCEPT !.results = m.results,
                 !.poolPc = "done",
                 !.pc = IF ValidCount(m.results) = 0 THEN "thrown" ELSE "returned"]]

\* The caller has taken the result (or the error); the invocation is over.
CallerResumes(c) ==
  /\ call[c].pc \in {"returned", "thrown"}
  /\ call' = [call EXCEPT ![c] = IdleCall]
  /\ UNCHANGED <<elevationCache, resolvedKeys>>

\* clearElevationCache(), callable at any await of a running call.
clearElevationCache ==
  /\ elevationCache' = <<>>
  /\ resolvedKeys' = {}
  /\ call' = [c \in Calls |->
       IF call[c].pc = "idle" THEN call[c] ELSE [call[c] EXCEPT !.cleared = TRUE]]

\* ------------------------------------------- viewshed.js: tile elevation module

\* Coordinates are counted in half steps of the fifth decimal (see toFixed5):
\* 360 degrees are WorldUnits of them.
WorldUnits == 72000000
TILE_ZOOM == 12
\* completed % 500 === 0 in the source; scaled with the lists of the model.
PROGRESS_CHUNK == 2
TileLats == {0, 1, 3}

RECURSIVE ShiftLeft(_, _)
ShiftLeft(x, k) == IF k = 0 THEN x ELSE ShiftLeft(2 * x, k - 1)

\* n / WorldUnits in lowest terms (2^12 / 72000000 = 8 / 140625), which keeps
\* the products below 2^31.
TileNum == ShiftLeft(1, TILE_ZOOM) \div 512
TileDen == WorldUnits \div 512

\* ((lng + 180) / 360) * n, as a count of 1/TileDen of a tile.
WorldX(lng) == (lng + (WorldUnits \div 2)) * TileNum

\* (1 - ln(tan(latRad) + 1 / cos(latRad)) / PI) / 2 * n in the same units. The
\* points of the model lie within a few units of the equator, where
\* ln(tan + sec) equals latRad to more than twelve digits.
WorldY(lat) == ((WorldUnits \div 2) - lat) * TileNum

getTileCoords(lat, lng) ==
  [tileX |-> WorldX(lng) \div TileDen, tileY |-> WorldY(lat) \div TileDen]

Clamp255(v) == IF v < 0 THEN 0 ELSE IF v > 255 THEN 255 ELSE v

getPixelInTile(lat, lng, tileX, tileY) ==
  [px |-> Clamp255(((WorldX(lng) - tileX * TileDen) * 256) \div TileDen),
   py |-> Clamp255(((WorldY(lat) - tileY * TileDen) * 256) \div TileDen)]

\* `${zoom}/${tileX}/${tileY}`
TileKey(t) == <<TILE_ZOOM, t.tileX, t.tileY>>
TileKeyOf(p) == TileKey(getTileCoords(p.lat, p.lng))
AllTileKeys == {TileKeyOf(Point(l)) : l \in TileLats}

\* The RGB bytes of the terrain raster at a pixel of a tile: sea level at the
\* origin pixel of every tile, a few metres elsewhere.
TilePixel(key, px, py) == [r |-> 128, g |-> (px + py) % 256, b |-> 0]

\* (r * 256 + g + b / 256) - 32768; the rasters of the model have b = 0.
decodeTerrarium(r, g, b) == (r * 256 + g + (b \div 256)) - 32768

\* imageData is the decoded raster of the tile `key`.
readElevation(key, px, py) ==
  LET d == TilePixel(key, px, py) IN decodeTerrarium(d.r, d.g, d.b)

IdleTileCall ==
  [pc |-> "idle", points |-> <<>>, results |-> <<>>, uncachedIndices |-> <<>>,
   waits |-> <<>>, progress |-> <<>>]

\* Mutant: loadTileImage without its cache test.
tileImageCacheHas_Never(cache, key) == FALSE

\* tileImageCache.has(key)
tileImageCacheHas(cache, key) == key \in DOMAIN cache

\* loadTileImage(tileX, tileY, zoom) for the tile `key`: the stored promise, or
\* a new pending one that starts a download and is stored under the key.
loadTileImage(key, s) ==
  IF tileImageCacheHas(s.cache, key)
  THEN [s EXCEPT !.waits = (key :> s.cache[key]) @@ @]
  ELSE LET id == Len(s.proms) + 1 IN
       [cache |-> (key :> id) @@ s.cache,
        proms |-> Append(s.proms, [key |-> key, st |-> "pending"]),
        dl    |-> [s.dl EXCEPT ![key] = @ + 1],
        waits |-> (key :> id) @@ s.waits]

\* tilesNeeded in insertion order: the tile keys of the misses, each once.
RECURSIVE tilesNeeded(_, _, _)
tilesNeeded(pts, unc, m) ==
  IF m = 0 THEN <<>>
  ELSE LET before == tilesNeeded(pts, unc, m - 1)
           key    == TileKeyOf(pts[unc[m]])
       IN IF \E k \in 1..Len(before) : before[k] = key THEN before
          ELSE Append(before, key)

\* tileEntries.map(...): loadTileImage for every needed tile, in order.
RECURSIVE loadPromises(_, _, _)
loadPromises(keys, m, s) ==
  IF m = 0 THEN s ELSE loadTileImage(keys[m], loadPromises(keys, m - 1, s))

\* The lookup loop over pointMappings, from mapping m on.
RECURSIVE LookupFrom(_, _, _, _, _)
LookupFrom(pts, unc, m, tileDataMap, s) ==
  IF m > Len(unc) THEN s
  ELSE
    LET idx  == unc[m]
        pt   == pts[idx]
        key  == TileKeyOf(pt)
        t    == getTileCoords(pt.lat, pt.lng)
        pix  == getPixelInTile(pt.lat, pt.lng, t.tileX, t.tileY)
        have == key \in tileDataMap
        elevation == IF have THEN readElevation(key, pix.px, pix.py) ELSE Null
        completed == s.completed + 1
        report == completed % PROGRESS_CHUNK = 0 \/ completed = Len(pts)
    IN LookupFrom(pts, unc, m + 1, tileDataMap,
         [results   |-> [s.results EXCEPT ![idx] =
                           [lat |-> pt.lat, lng |-> pt.lng, elevation |-> elevation]],
          cache     |-> IF have THEN CacheSet(s.cache, KeyOf(pt), elevation) ELSE s.cache,
          completed |-> completed,
          progress  |-> IF report THEN Append(s.progress, <<completed, Len(pts)>>)
                        ELSE s.progress])

\* fetchElevations(points, onProgress) of the tile module, up to its
\* await Promise.all(loadPromises).
tileFetchElevations(c, pts) ==
  /\ tcall[c].pc = "idle"
  /\ LET unc == UncachedOf(pts, tileElevationCache)
         res == HitsOf(pts, tileElevationCache)
     IN IF Len(unc) = 0
        THEN /\ tcall' = [tcall EXCEPT ![c] =
                  [IdleTileCall EXCEPT !.pc = "returned", !.points = pts, !.results = res,
                                       !.progress = << <<Len(pts), Len(pts)>> >>]]
             /\ UNCHANGED <<tileImageCache, promises, downloads>>
        ELSE LET keys == tilesNeeded(pts, unc, Len(unc))
                 s == loadPromises(keys, Len(keys),
                        [cache |-> tileImageCache, proms |-> promises,
                         dl |-> downloads, waits |-> <<>>])
             IN /\ Len(s.proms) <= MaxDownloads
                /\ tileImageCache' = s.cache
                /\ promises' = s.proms
                /\ downloads' = s.dl
                /\ tcall' = [tcall EXCEPT ![c] =
                     [pc |-> "loading", points |-> pts, results |-> res,
                      uncachedIndices |-> unc, waits |-> s.waits,
                      progress |-> << <<0, Len(pts)>> >>]]
  /\ UNCHANGED tileElevationCache

\* img.onload: the promise resolves with the tile's raster.
TileLoads(id) ==
  /\ id \in DOMAIN promises
  /\ promises[id].st = "pending"
  /\ promises' = [promises EXCEPT ![id].st = "loaded"]
  /\ UNCHANGED <<tileImageCache, tileElevationCache, tcall, downloads>>

\* img.onerror: the promise rejects; it stays in tileImageCache.
TileFails(id) ==
  /\ id \in DOMAIN promises
  /\ promises[id].st = "pending"
  /\ promises' = [promises EXCEPT ![id].st = "failed"]
  /\ UNCHANGED <<tileImageCache, tileElevationCache, tcall, downloads>>

\* Promise.all(loadPromises) has settled: the lookup loop, the final progress
\* report and the throw or the return.
TileLookup(c) ==
  LET k == tcall[c] IN
  /\ k.pc = "loading"
  /\ \A key \in DOMAIN k.waits : promises[k.waits[key]].st # "pending"
  /\ LET tileDataMap == {key \in DOMAIN k.waits : promises[k.waits[key]].st = "loaded"}
         s == LookupFrom(k.points, k.uncachedIndices, 1, tileDataMap,
                [results |-> k.results, cache |-> tileElevationCache,
                 completed |-> Len(k.points) - Len(k.uncachedIndices),
                 progress |-> k.progress])
     IN /\ tileElevationCache' = s.cache
        /\ tcall' = [tcall EXCEPT ![c] =
             [k EXCEPT !.results = s.results,
                       !.progress = Append(s.progress, <<Len(k.points), Len(k.points)>>),
                       !.pc = IF tileDataMap = {} THEN "thrown" ELSE "returned"]]
  /\ UNCHANGED <<tileImageCache, promises, downloads>>

\* The caller has taken the result (or the error); the invocation is over.
TileCallerResumes(c) ==
  /\ tcall[c].pc \in {"returned", "thrown"}
  /\ tcall' = [tcall EXCEPT ![c] = IdleTileCall]
  /\ UNCHANGED <<tileImageCache, promises, tileElevationCache, downloads>>

\* Mutant: only the elevations are cleared, the tile promises stay.
tileClearElevationCache_KeepsImages ==
  /\ tileElevationCache' = <<>>
  /\ downloads' = [key \in AllTileKeys |-> 0]
  /\ UNCHANGED <<tileImageCache, promises, tcall>>

\* clearElevationCache() of the tile module: both maps.
tileClearElevationCache ==
  /\ tileElevationCache' = <<>>
  /\ tileImageCache' = <<>>
  /\ downloads' = [key \in AllTileKeys |-> 0]
  /\ UNCHANGED <<promises, tcall>>

\* ------------------------------------------- main.js / ui.js: analysis runs

Locations == 1..2
Modes == {"sunset", "sunrise"}
RunIds == 1..MaxRuns

\* gridFailed (history): fetchElevations for the candidate grid threw.
IdleRun ==
  [pc |-> "idle", lat |-> Null, mode |-> "sunset", superseded |-> FALSE,
   gridFailed |-> FALSE, caught |-> TRUE]

\* A handleSearch / runAnalysis invocation that has not run to its end.
Active(r) == run[r].pc \notin {"idle", "done"}

\* The next invocation gets the first unused record.
NewRun(r) == run[r].pc = "idle" /\ \A x \in RunIds : x < r => run[x].pc # "idle"

\* run with the invocation r started as rec; superseded (history) marks the
\* invocations that were still running at that moment.
Started(r, rec) ==
  [x \in RunIds |->
     IF x = r THEN rec
     ELSE IF Active(x) THEN [run[x] EXCEPT !.superseded = TRUE] ELSE run[x]]

\* runAnalysis(lat, lng) up to its await fetchElevations: hideLocationPicker,
\* state.location, setLoading(true), the sun card, setProgress(10).
runAnalysis(u, lat) ==
  [u EXCEPT !.picker = {}, !.location = lat, !.isLoading = TRUE, !.progress = 10]

\* The end of runAnalysis: stopPulse, setLoading(false), updateHash,
\* setProgress(100).
Finished(u) == [u EXCEPT !.isLoading = FALSE, !.hash = u.location, !.progress = 100]

\* initUI(callbacks): the listeners are attached, then loadFromHash starts a
\* run when the URL hash holds a position (and takes the mode from it).
initUI(hash, mode) ==
  /\ ~ui.booted
  /\ IF hash = Null
     THEN /\ ui' = [ui EXCEPT !.booted = TRUE]
          /\ UNCHANGED run
     ELSE /\ ui' = [runAnalysis(ui, hash) EXCEPT !.booted = TRUE, !.mode = mode, !.hash = hash]
          /\ run' = Started(1, [IdleRun EXCEPT !.pc = "elevations", !.lat = hash, !.mode = mode])
  /\ UNCHANGED staleUpdate

\* doSearch -> handleSearch(query): setLoading(true), await geocode(query).
handleSearch(r) ==
  /\ ui.booted /\ NewRun(r)
  /\ ui' = [ui EXCEPT !.isLoading = TRUE]
  /\ run' = Started(r, [IdleRun EXCEPT !.pc = "geocode", !.mode = ui.mode])
  /\ UNCHANGED staleUpdate

\* geocode settles: one result goes on to runAnalysis, several go to the
\* location picker, an error is shown.
GeocodeSettles(r, found) ==
  /\ run[r].pc = "geocode"
  /\ staleUpdate' = (staleUpdate \/ run[r].superseded)
  /\ IF Cardinality(found) = 1
     THEN LET lat == CHOOSE l \in found : TRUE IN
          /\ ui' = runAnalysis(ui, lat)
          /\ run' = [run EXCEPT ![r].pc = "elevations", ![r].lat = lat, ![r].mode = ui.mode]
     ELSE IF found = {}
     THEN /\ ui' = [ui EXCEPT !.isLoading = FALSE, !.error = "Location not found"]
          /\ run' = [run EXCEPT ![r].pc = "done"]
     ELSE /\ ui' = [ui EXCEPT !.isLoading = FALSE, !.picker = found]
          /\ run' = [run EXCEPT ![r].pc = "done"]

\* A click on an item of the location picker: runAnalysis(selected).
pickLocation(r, lat) ==
  /\ ui.booted /\ NewRun(r)
  /\ lat \in ui.picker
  /\ ui' = runAnalysis(ui, lat)
  /\ run' = Started(r, [IdleRun EXCEPT !.pc = "elevations", !.lat = lat, !.mode = ui.mode,
                                        !.caught = FALSE])
  /\ UNCHANGED staleUpdate

\* The mode toggle: state.mode flips and, with a location set,
\* callbacks.onSearch(null, lat, lng) starts runAnalysis.
modeToggle(r) ==
  /\ ui.booted
  /\ LET mode == IF ui.mode = "sunset" THEN "sunrise" ELSE "sunset" IN
     IF ui.location = Null
     THEN /\ r = 1
          /\ ui' = [ui EXCEPT !.mode = mode]
          /\ UNCHANGED run
     ELSE /\ NewRun(r)
          /\ ui' = [runAnalysis(ui, ui.location) EXCEPT !.mode = mode]
          /\ run' = Started(r, [IdleRun EXCEPT !.pc = "elevations", !.lat = ui.location,
                                                !.mode = mode])
  /\ UNCHANGED staleUpdate

\* The weather checkbox.
weatherToggle ==
  /\ ui.booted
  /\ ui' = [ui EXCEPT !.weatherEnabled = ~@]
  /\ UNCHANGED <<run, staleUpdate>>

\* The timer of showError: the message is hidden after 5 seconds.
errorTimerFires ==
  /\ ui.error # "none"
  /\ ui' = [ui EXCEPT !.error = "none"]
  /\ UNCHANGED <<run, staleUpdate>>

\* The onProgress callback of fetchElevations: pct = 10 + (done / total) * 40.
ElevationsProgress(r, pct) ==
  /\ run[r].pc = "elevations"
  /\ ui' = [ui EXCEPT !.progress = pct]
  /\ staleUpdate' = (staleUpdate \/ run[r].superseded)
  /\ UNCHANGED run

\* Mutant: the catch block without its setLoading(false).
ElevationsCatch_KeepsLoading(u) == [u EXCEPT !.error = "Elevation data unavailable"]

\* The catch block around fetchElevations: stopPulse, setLoading(false),
\* showError('Elevation data unavailable. Please try again.').
ElevationsCatch(u) == [u EXCEPT !.isLoading = FALSE, !.error = "Elevation data unavailable"]

\* fetchElevations settles: setProgress(50) and on to analyzeViewshed, or the
\* catch block (setLoading(false), showError, return).
ElevationsSettle(r, ok) ==
  /\ run[r].pc = "elevations"
  /\ staleUpdate' = (staleUpdate \/ run[r].superseded)
  /\ IF ok
     THEN /\ ui' = [ui EXCEPT !.progress = 50]
          /\ run' = [run EXCEPT ![r].pc = "viewshed"]
     ELSE /\ ui' = ElevationsCatch(ui)
          /\ run' = [run EXCEPT ![r].pc = "done", ![r].gridFailed = TRUE]

\* analyzeViewshed settles: the ranked candidates are displayed, then the
\* weather is fetched if enabled; or the catch block.
ViewshedSettles(r, ok) ==
  /\ run[r].pc = "viewshed"
  /\ staleUpdate' = (staleUpdate \/ run[r].superseded)
  /\ IF ~ok
     THEN /\ ui' = [ui EXCEPT !.isLoading = FALSE, !.error = "Viewshed analysis failed"]
          /\ run' = [run EXCEPT ![r].pc = "done"]
     ELSE IF ui.weatherEnabled
     THEN /\ ui' = [ui EXCEPT !.progress = 95, !.resultsOf = r]
          /\ run' = [run EXCEPT ![r].pc = "weather"]
     ELSE /\ ui' = Finished([ui EXCEPT !.resultsOf = r])
          /\ run' = [run EXCEPT ![r].pc = "done"]

\* An exception out of runAnalysis: the catch block of handleSearch
\* (setLoading(false), showError) for a run that handleSearch awaits; the
\* callback given to showLocationPicker has no catch.
DisplayCatch(u, caught) ==
  IF caught
  THEN [u EXCEPT !.progress = 95, !.isLoading = FALSE, !.error = "An error occurred"]
  ELSE [u EXCEPT !.progress = 95]

\* analyzeViewshed has resolved, setProgress(95) is done, and rankCandidates,
\* plotCandidates, highlightTopSpots or updateResultsList throws.
DisplayThrows(r) ==
  /\ run[r].pc = "viewshed"
  /\ staleUpdate' = (staleUpdate \/ run[r].superseded)
  /\ ui' = DisplayCatch(ui, run[r].caught)
  /\ run' = [run EXCEPT ![r].pc = "done"]

\* fetchWeather settles (a failure is only logged) and runAnalysis ends.
WeatherSettles(r, ok) ==
  /\ run[r].pc = "weather"
  /\ staleUpdate' = (staleUpdate \/ run[r].superseded)
  /\ ui' = Finished([ui EXCEPT !.weatherOf = IF ok THEN r ELSE @])
  /\ run' = [run EXCEPT ![r].pc = "done"]

\* ------------------------------------------- viewshed.js: rays and obstruction

RAY_SAMPLE_SPACING == 300
RAY_MAX_DISTANCE == 8000
CURVATURE_THRESHOLD == 2000
R_EARTH == 6371000

\* destinationPoint(lat, lng, bearingDeg, distanceM) along a meridian, the
\* latitude counted in metres of arc: due north (0) adds the distance, due
\* south (180) subtracts it, the longitude stays.
destinationPoint(lat, lng, bearingDeg, distanceM) ==
  [lat |-> IF bearingDeg = 0 THEN lat + distanceM ELSE lat - distanceM, lng |-> lng]

\* Mutant: the loop of generateRayPoints with d < maxDist.
RayLoopContinues_Strict(d, maxDist) == d < maxDist

\* The loop test of generateRayPoints: d <= maxDist.
RayLoopContinues(d, maxDist) == d <= maxDist

\* The loop of generateRayPoints from distance d on.
RECURSIVE RayPointsFrom(_, _, _, _, _, _)
RayPointsFrom(d, originLat, originLng, bearingDeg, maxDist, spacing) ==
  IF RayLoopContinues(d, maxDist)
  THEN LET pt == destinationPoint(originLat, originLng, bearingDeg, d) IN
       <<[lat |-> pt.lat, lng |-> pt.lng, distance |-> d]>>
         \o RayPointsFrom(d + spacing, originLat, originLng, bearingDeg, maxDist, spacing)
  ELSE <<>>

generateRayPoints(originLat, originLng, bearingDeg, maxDist, spacing) ==
  RayPointsFrom(spacing, originLat, originLng, bearingDeg, maxDist, spacing)

\* An angle Math.atan2(y, x) * (180 / PI) is kept as the pair it is the
\* arctangent of, in the units of SlopeOf: <<-1, 0>> is -90 degrees.
MinusNinety == <<-1, 0>>

\* Mutant: the comparison of computeObstruction turned round (angle < maxAngle).
AngleGT_Less(a, b) ==
  IF a[2] = 0 /\ b[2] = 0 THEN a[1] < b[1] ELSE a[1] * b[2] < b[1] * a[2]

\* a > b for two such angles with x >= 0 (the arctangent is monotone).
AngleGT(a, b) ==
  IF a[2] = 0 /\ b[2] = 0 THEN a[1] > b[1] ELSE a[1] * b[2] > b[1] * a[2]

\* Distances are whole hectometres in the model (every multiple of the sample
\* spacing is); 2 * R_EARTH / 100^2 = ElevScale / 5.
ElevScale == R_EARTH \div 1000
Hecto(dist) == dist \div 100

\* curvatureDrop(dist) = dist^2 / (2 * R_EARTH), times ElevScale.
curvatureDropScaled(dist) == 5 * Hecto(dist) * Hecto(dist)

\* Math.atan2(elevDiff, dist) for a sample: the pair <<ElevScale * elevDiff, dist / 100>>,
\* with the curvature correction beyond CURVATURE_THRESHOLD.
SlopeOf(candidate, sample) ==
  LET dist == sample.distance
      terrainElev == IF dist > CURVATURE_THRESHOLD
                     THEN sample.elevation * ElevScale - curvatureDropScaled(dist)
                     ELSE sample.elevation * ElevScale
  IN <<terrainElev - candidate.elevation * ElevScale, Hecto(dist)>>

\* Mutant: a margin of one degree (tan(1 degree) * 637100 = 11120.62...).
BelowHalfDegree_OneDegree(a) ==
  IF a[2] = 0 THEN a[1] < 0 ELSE a[1] <= a[2] * 11120

\* angle < 0.5: tan(0.5 degrees) * 637100 = 5559.887469..., so for the whole
\* number y the test is y <= floor(x * 5559.887469...).
BelowHalfDegree(a) ==
  IF a[2] = 0 THEN a[1] < 0
  ELSE a[1] <= a[2] * 5559 + ((a[2] * 887469) \div 1000000)

\* The loop of computeObstruction over raySamples[m..].
RECURSIVE ObstructionFrom(_, _, _, _)
ObstructionFrom(candidate, raySamples, m, s) ==
  IF m > Len(raySamples) THEN s
  ELSE LET sample == raySamples[m]
           angle  == SlopeOf(candidate, sample)
       IN ObstructionFrom(candidate, raySamples, m + 1,
            IF AngleGT(angle, s.maxAngle)
            THEN [maxAngle |-> angle, maxBlockerDistance |-> sample.distance,
                  maxBlockerElevation |-> sample.elevation]
            ELSE s)

computeObstruction(candidate, raySamples) ==
  LET s == ObstructionFrom(candidate, raySamples, 1,
             [maxAngle |-> MinusNinety, maxBlockerDistance |-> 0, maxBlockerElevation |-> 0])
  IN [obstructionAngle |-> s.maxAngle,
      maxBlockerDistance |-> s.maxBlockerDistance,
      maxBlockerElevation |-> s.maxBlockerElevation,
      isClear |-> BelowHalfDegree(s.maxAngle)]

\* ------------------------------------------- viewshed.js: analyzeViewshed

Bearings == {0, 180}
CandidateLats == {0, 50000}
CandidateElevations == {Null, 0, 100}
Candidates ==
  {[lat |-> lat, lng |-> 0, elevation |-> e] : lat \in CandidateLats, e \in CandidateElevations}

IdleViewshed ==
  [pc |-> "idle", candidates |-> <<>>, sunBearing |-> 0, validCandidates |-> <<>>,
   allRayPoints |-> <<>>, rayPointCounts |-> <<>>, rayElevations |-> <<>>,
   progress |-> <<>>, computedBy |-> "none", results |-> <<>>,
   worker |-> "none", workerAt |-> 0, inbox |-> <<>>, terminated |-> FALSE,
   settled |-> FALSE, fellBack |-> FALSE]

\* Mutant: a truthiness filter (c => c.elevation), which drops sea level.
IsValidCandidate_Truthy(c) == ~isNullish(c.elevation) /\ c.elevation # 0

\* c => c.elevation != null
IsValidCandidate(c) == ~isNullish(c.elevation)

\* allRayPoints.push(...rayPts) over validCandidates[1..m].
RECURSIVE AllRayPoints(_, _, _)
AllRayPoints(valid, sunBearing, m) ==
  IF m = 0 THEN <<>>
  ELSE AllRayPoints(valid, sunBearing, m - 1)
         \o generateRayPoints(valid[m].lat, valid[m].lng, sunBearing,
                              RAY_MAX_DISTANCE, RAY_SAMPLE_SPACING)

\* analyzeViewshed(candidates, sunBearing, sunAltitude, onProgress) up to its
\* await fetchElevations(allRayPoints, ...).
analyzeViewshed(cands, sunBearing) ==
  /\ vs.pc = "idle"
  /\ LET valid == SelectSeq(cands, IsValidCandidate) IN
     vs' = [IdleViewshed EXCEPT
              !.pc = "elevations", !.candidates = cands, !.sunBearing = sunBearing,
              !.validCandidates = valid,
              !.allRayPoints = AllRayPoints(valid, sunBearing, Len(valid)),
              !.rayPointCounts =
                 [i \in 1..Len(valid) |->
                    Len(generateRayPoints(valid[i].lat, valid[i].lng, sunBearing,
                                          RAY_MAX_DISTANCE, RAY_SAMPLE_SPACING))]]

\* What the elevation service can answer for the samples of one ray: the
\* terrain it reads (flat at sea level, or a ridge of 500 m at 600 m) and the
\* samples it fails to resolve (by their position on the ray).
RayTerrains == {"flat", "ridge"}
RayFailures == {{}, {1}, {2}, 1..(RAY_MAX_DISTANCE \div RAY_SAMPLE_SPACING)}
RayAnswers == [terrain : RayTerrains, failed : RayFailures]

RayElevation(answer, pt, j) ==
  IF j \in answer.failed THEN Null
  ELSE IF answer.terrain = "ridge" /\ pt.distance = 600 THEN 500 ELSE 0

\* arr.slice(offset, offset + count)
Slice(arr, offset, count) ==
  [j \in 1..Min(count, Len(arr) - offset) |-> arr[offset + j]]

\* distance: (j + 1) * RAY_SAMPLE_SPACING, j the 0-based index after the filter.
SampleDistance(pt, j) == j * RAY_SAMPLE_SPACING

\* .filter(pt => pt.elevation != null).map((pt, j) => ({..., distance}))
RaySamples(slice) ==
  LET kept == SelectSeq(slice, LAMBDA pt : ~isNullish(pt.elevation)) IN
  [j \in 1..Len(kept) |->
     [lat |-> kept[j].lat, lng |-> kept[j].lng, elevation |-> kept[j].elevation,
      distance |-> SampleDistance(kept[j], j)]]

\* offset before candidate i: the counts of the candidates before it.
RECURSIVE OffsetOf(_, _)
OffsetOf(counts, i) == IF i <= 1 THEN 0 ELSE OffsetOf(counts, i - 1) + counts[i - 1]

\* fetchElevations settles for the ray points. It resolves with one entry per
\* point, in order, or rejects when no point has an elevation; then the
\* split into per-candidate rays and the start of the worker.
RayElevationsSettle(answers) ==
  /\ vs.pc = "elevations"
  /\ DOMAIN answers = 1..Len(vs.validCandidates)
  /\ LET counts == vs.rayPointCounts
         elevatedPoints ==
           [p \in 1..Len(vs.allRayPoints) |->
              LET i == CHOOSE i \in 1..Len(counts) :
                         OffsetOf(counts, i) < p /\ p <= OffsetOf(counts, i) + counts[i]
                  pt == vs.allRayPoints[p]
              IN [lat |-> pt.lat, lng |-> pt.lng, distance |-> pt.distance,
                  elevation |-> RayElevation(answers[i], pt, p - OffsetOf(counts, i))]]
         n == Len(elevatedPoints)
     IN IF n > 0 /\ \A p \in 1..n : isNullish(elevatedPoints[p].elevation)
        THEN vs' = [vs EXCEPT !.pc = "thrown"]
        ELSE vs' = [vs EXCEPT
                      !.pc = "worker",
                      !.rayElevations =
                         [i \in 1..Len(vs.validCandidates) |->
                            RaySamples(Slice(elevatedPoints, OffsetOf(counts, i), counts[i]))],
                      !.progress = Append(@, <<0, Len(vs.validCandidates), "analysis">>)]

\* The result loop of the worker's onmessage and of computeOnMainThread.
ObstructionResults(valid, rayElevations, sunBearing) ==
  [i \in 1..Len(valid) |->
     LET o == computeObstruction(valid[i], rayElevations[i]) IN
     [lat |-> valid[i].lat, lng |-> valid[i].lng, elevation |-> valid[i].elevation,
      sunBearing |-> sunBearing,
      obstructionAngle |-> o.obstructionAngle,
      maxBlockerDistance |-> o.maxBlockerDistance,
      maxBlockerElevation |-> o.maxBlockerElevation,
      isClear |-> o.isClear,
      viewQuality |-> IF o.isClear THEN "clear" ELSE "obstructed"]]

\* The callback analyzeViewshed hands to fetchElevations: a report of the ray
\* elevation fetch (done of total points, more than reported before).
RayElevationsProgress(done) ==
  /\ vs.pc = "elevations"
  /\ done <= Len(vs.allRayPoints)
  /\ vs.progress # <<>> => vs.progress[Len(vs.progress)][1] < done
  /\ vs' = [vs EXCEPT !.progress = Append(@, <<done, Len(vs.allRayPoints), "elevation">>)]

\* i % 100 === 0 || i === length - 1.
ReportsProgress(i, n) == i % 100 = 0 \/ i = n - 1

\* The reports of computeOnMainThread, as (i + 1, length, 'analysis').
AnalysisProgress(n) ==
  LET at == SelectSeq([i \in 1..n |-> i - 1], LAMBDA i : ReportsProgress(i, n)) IN
  [k \in 1..Len(at) |-> <<at[k] + 1, n, "analysis">>]

\* Mutant: a promise that takes every value it is resolved with.
Resolve_Overwrites(v, data, by) ==
  [v EXCEPT !.pc = "returned", !.settled = TRUE, !.results = data, !.computedBy = by]

\* resolve(data) of the promise of computeInWorker: the first call settles it.
Resolve(v, data, by) ==
  IF v.settled THEN v
  ELSE [v EXCEPT !.pc = "returned", !.settled = TRUE, !.results = data, !.computedBy = by]

\* resolve(computeOnMainThread(...)): the results are computed and reported on
\* the main thread, then handed to resolve.
computeOnMainThread(v) ==
  Resolve([v EXCEPT !.fellBack = TRUE,
                    !.progress = @ \o AnalysisProgress(Len(v.validCandidates))],
          ObstructionResults(v.validCandidates, v.rayElevations, v.sunBearing), "main")

\* computeInWorker: new Worker(...) throws, and the catch falls back.
WorkerCreationFails ==
  /\ vs.pc = "worker" /\ vs.worker = "none"
  /\ vs' = computeOnMainThread([vs EXCEPT !.worker = "nostart"])

\* computeInWorker: the worker is created, its handlers are set and the
\* candidates are posted to it.
WorkerStarts ==
  /\ vs.pc = "worker" /\ vs.worker = "none"
  /\ vs' = [vs EXCEPT !.worker = "running"]

Message(type, completed, total) == [type |-> type, completed |-> completed, total |-> total]

\* One turn of the loop of the worker's onmessage.
WorkerIterates ==
  /\ vs.worker = "running" /\ ~ vs.terminated
  /\ vs.workerAt < Len(vs.validCandidates)
  /\ LET i == vs.workerAt n == Len(vs.validCandidates) IN
     vs' = [vs EXCEPT
              !.workerAt = i + 1,
              !.inbox = IF ReportsProgress(i, n)
                        THEN Append(@, Message("progress", i + 1, n)) ELSE @]

\* self.postMessage({ type: 'result', data: results }) after the loop.
WorkerPostsResult ==
  /\ vs.worker = "running" /\ ~ vs.terminated
  /\ vs.workerAt = Len(vs.validCandidates)
  /\ vs' = [vs EXCEPT !.worker = "posted", !.inbox = Append(@, Message("result", 0, 0))]

\* The worker raises an error (its script fails to load, a turn of the loop or
\* the posting of the result throws, the browser ends it): an error event for
\* worker.onerror, at any time before the worker is terminated.
WorkerRaisesError ==
  /\ vs.worker \in {"running", "posted"} /\ ~ vs.terminated
  /\ vs' = [vs EXCEPT !.worker = "failed", !.inbox = Append(@, Message("error", 0, 0))]

\* worker.onmessage and worker.onerror on the main thread, for the next event.
WorkerEventHandled ==
  /\ vs.inbox # <<>>
  /\ LET msg == Head(vs.inbox)
         v == [vs EXCEPT !.inbox = Tail(@)]
     IN vs' = CASE msg.type = "progress" ->
                     [v EXCEPT !.progress = Append(@, <<msg.completed, msg.total, "analysis">>)]
                [] msg.type = "result" ->
                     Resolve([v EXCEPT !.terminated = TRUE],
                             ObstructionResults(v.validCandidates, v.rayElevations,
                                                v.sunBearing), "worker")
                [] msg.type = "error" ->
                     computeOnMainThread([v EXCEPT !.terminated = TRUE])

\* The reports of the ray elevation fetch the model draws from: none done,
\* the ray of one candidate done.
RayProgressCounts == {0, 26}

\* The caller has taken the results (or the error).
ViewshedCallerResumes ==
  /\ vs.pc \in {"returned", "thrown"}
  /\ vs' = IdleViewshed

\* ------------------------------------------- computeObstruction on its own

\* The arguments of a call: a candidate and up to MaxSamples ray samples, at
\* the near, the far and two middle distances of a ray.
SampleElevations == {-50, 0, 3, 69, 500}
SampleDistances == {300, 600, 2100, 7800}
Samples == [elevation : SampleElevations, distance : SampleDistances]
ObstructionCalls ==
  [pc : {"called"}, f : {"computeObstruction"},
   candidate : [elevation : {0, 100}],
   raySamples : UNION {[1..m -> Samples] : m \in 0..MaxSamples},
   result : {<<>>}]

computeObstructionReturns ==
  /\ fn.pc = "called" /\ fn.f = "computeObstruction"
  /\ fn' = [fn EXCEPT !.pc = "returned",
                      !.result = computeObstruction(fn.candidate, fn.raySamples)]

\* ------------------------------------------- generateRayPoints on its own

\* The arguments of a call: the defaults, those of the tests (3000 / 300,
\* 2000 / 500, 5000 / 1000) and their other combinations.
RayMaxDistances == {2000, 3000, 5000, RAY_MAX_DISTANCE}
RaySpacings == {RAY_SAMPLE_SPACING, 500, 1000}
RayCalls ==
  [pc : {"called"}, f : {"generateRayPoints"},
   originLat : {-50000, 0, 50000}, originLng : {0}, bearingDeg : Bearings,
   maxDist : RayMaxDistances, spacing : RaySpacings, result : {<<>>}]

generateRayPointsReturns ==
  /\ fn.pc = "called" /\ fn.f = "generateRayPoints"
  /\ fn' = [fn EXCEPT !.pc = "returned",
                      !.result = generateRayPoints(fn.originLat, fn.originLng, fn.bearingDeg,
                                                   fn.maxDist, fn.spacing)]

\* ------------------------------------------- scorer.js: scoreCandidate

\* Angles are counted in tenths of a degree and points in thousandths, which
\* keeps every product of scoreCandidate a whole number.
Max(a, b) == IF a > b THEN a ELSE b
Abs(a) == IF a < 0 THEN 0 - a ELSE a

\* haversine(lat1, lng1, lat2, lng2) for two points of one meridian, the
\* latitude counted in metres of arc (see destinationPoint).
haversine(lat1, lng1, lat2, lng2) == Abs(lat2 - lat1)

\* 1. Obstruction score.
ObstructionScore(candidate) ==
  IF candidate.isClear
  THEN LET obstructionBonus == Min(40000, 40000 + candidate.obstructionAngle * (0 - 400))
       IN Max(0, Min(40000, obstructionBonus))
  ELSE Max(0, 20000 - candidate.obstructionAngle * 400)

\* Mutant: the elevation left out of the score.
ElevationScore_Ignored(candidate) == 0

\* 2. Elevation advantage: Math.min(candidate.elevation / 1000, 1) * 30.
ElevationScore(candidate) == Min(candidate.elevation * 30, 30000)

\* 3. Distance penalty; an options object without a center (or with a falsy
\* maxRadius) adds a flat 10. The calls of the model divide evenly.
ProximityScore(candidate, options) ==
  IF options.centerLat # Undefined /\ options.maxRadius # 0
  THEN LET dist == haversine(options.centerLat, options.centerLng, candidate.lat, candidate.lng)
       IN 15000 - Min((15000 * dist) \div options.maxRadius, 15000)
  ELSE 10000

\* 4. View clearance margin.
MarginScore(candidate) ==
  IF candidate.obstructionAngle < 0
  THEN Min(15000, Abs(candidate.obstructionAngle) * 500)
  ELSE 0

\* Math.round: to the nearest whole number, halves upwards.
MathRound(milli) == (milli + 500) \div 1000

\* Mutant: the result without its clamp.
ClampScore_None(v) == v

\* Math.max(0, Math.min(100, v))
ClampScore(v) == Max(0, Min(100, v))

scoreCandidate(candidate, options) ==
  ClampScore(MathRound(ObstructionScore(candidate) + ElevationScore(candidate)
                         + ProximityScore(candidate, options) + MarginScore(candidate)))

\* The candidates of the calls: what analyzeViewshed returns for a grid point,
\* isClear being obstructionAngle < 0.5.
ScoreAngles == {-900, -50, -20, 0, 4, 5, 50, 900}
ScoreElevations == {-3000, -430, 0, 500, 510, 534, 1000, 8848}
ScoreCandidate(lat, e, a) ==
  [lat |-> lat, lng |-> 0, elevation |-> e, obstructionAngle |-> a, isClear |-> a < 5]

ScoreOptions ==
  {[centerLat |-> Undefined, centerLng |-> Undefined, maxRadius |-> Undefined],
   [centerLat |-> 0, centerLng |-> 0, maxRadius |-> 10000],
   [centerLat |-> 0, centerLng |-> 0, maxRadius |-> 0]}

\* Two calls with the same options for two candidates at one grid point, which
\* differ in their obstruction only or in their elevation only (as the tests
\* of scoreCandidate make).
ScoreCalls ==
  {[pc |-> "called", f |-> "scoreCandidate",
    candidates |-> <<ScoreCandidate(lat, e, a1), ScoreCandidate(lat, e, a2)>>,
    options |-> o, parts |-> <<>>, scores |-> <<>>] :
     lat \in {0, 5000, 20000}, e \in ScoreElevations,
     a1 \in ScoreAngles, a2 \in ScoreAngles, o \in ScoreOptions}
  \cup
  {[pc |-> "called", f |-> "scoreCandidate",
    candidates |-> <<ScoreCandidate(lat, e1, a), ScoreCandidate(lat, e2, a)>>,
    options |-> o, parts |-> <<>>, scores |-> <<>>] :
     lat \in {0, 5000, 20000}, e1 \in ScoreElevations, e2 \in ScoreElevations,
     a \in ScoreAngles, o \in ScoreOptions}

\* The next call returns; parts (history) keeps the four summands.
scoreCandidateReturns ==
  /\ fn.pc = "called" /\ fn.f = "scoreCandidate"
  /\ LET c == fn.candidates[Len(fn.scores) + 1] IN
     fn' = [fn EXCEPT
              !.scores = Append(@, scoreCandidate(c, fn.options)),
              !.parts = Append(@, [obstruction |-> ObstructionScore(c),
                                   elevation |-> ElevationScore(c),
                                   proximity |-> ProximityScore(c, fn.options),
                                   margin |-> MarginScore(c)]),
              !.pc = IF Len(fn.scores) + 1 = Len(fn.candidates) THEN "returned" ELSE "called"]

\* ------------------------------------------------------------ rankCandidates
\* scorer.js: rankCandidates(candidates, options).

MaxRanked == 3

\* Mutant: the comparator turned round (a.score - b.score).
StaysBehind_Ascending(a, b) == a.score <= b.score

\* scored.sort((a, b) => b.score - a.score): b, which came later in the list,
\* stays behind a unless the comparator is positive (the sort is stable).
StaysBehind(a, b) == b.score - a.score <= 0

\* The place of c in a list already sorted: behind every element it stays behind.
RECURSIVE InsertScored(_, _)
InsertScored(sorted, c) ==
  IF sorted = <<>> THEN <<c>>
  ELSE IF StaysBehind(sorted[1], c) THEN <<sorted[1]>> \o InsertScored(Tail(sorted), c)
  ELSE <<c>> \o sorted

RECURSIVE SortScored(_)
SortScored(scored) ==
  IF scored = <<>> THEN <<>>
  ELSE InsertScored(SortScored(SubSeq(scored, 1, Len(scored) - 1)), scored[Len(scored)])

\* candidates.map(c => ({ ...c, score: scoreCandidate(c, options) })): a new
\* object for each candidate (source: the position of the object it copies).
ScoredCopies(candidates, options) ==
  [i \in 1..Len(candidates) |->
     [source |-> i, lat |-> candidates[i].lat, lng |-> candidates[i].lng,
      elevation |-> candidates[i].elevation,
      obstructionAngle |-> candidates[i].obstructionAngle,
      isClear |-> candidates[i].isClear,
      score |-> scoreCandidate(candidates[i], options), rank |-> Undefined]]

\* scored.forEach((c, i) => { c.rank = i + 1; }).
WithRanks(scored) == [i \in 1..Len(scored) |-> [scored[i] EXCEPT !.rank = i]]

rankCandidates(candidates, options) ==
  WithRanks(SortScored(ScoredCopies(candidates, options)))

RankCandidates ==
  {ScoreCandidate(lat, e, a) : lat \in {0, 5000}, e \in {0, 500, 1000}, a \in {-20, 50}}

RankOptions ==
  {[centerLat |-> Undefined, centerLng |-> Undefined, maxRadius |-> Undefined],
   [centerLat |-> 0, centerLng |-> 0, maxRadius |-> 10000]}

\* given: the list as the caller passed it; candidates: the caller's list as
\* it is now.
RankCalls ==
  {[pc |-> "called", f |-> "rankCandidates", given |-> cs, candidates |-> cs,
    options |-> o, result |-> <<>>] :
     cs \in UNION {[1..n -> RankCandidates] : n \in 0..MaxRanked}, o \in RankOptions}

\* The call returns: map, sort and forEach work on the new list only.
rankCandidatesReturns ==
  /\ fn.pc = "called" /\ fn.f = "rankCandidates"
  /\ fn' = [fn EXCEPT !.result = rankCandidates(fn.candidates, fn.options),
                      !.pc = "returned"]

\* ----------------------------------------------------------- generateHexGrid
\* utils.js: generateHexGrid(centerLat, centerLng, radiusM, spacingM), for a
\* positive spacing.  Offsets from the center are counted on the lattice: x in
\* halves of spacingM (hx), y in rows of rowSpacing = spacingM * sqrt(3) / 2, so
\* that 4 * (x^2 + y^2) = spacingM^2 * (hx^2 + 3 * row^2) is a whole number.

\* 4 * dist^2 for dist = Math.sqrt(x * x + y * y).
FourDistSquared(hx, row, spacingM) == spacingM * spacingM * (hx * hx + 3 * row * row)

\* Math.ceil(radiusM / rowSpacing): the least whole number that is at least
\* 2 * radiusM / (spacingM * sqrt(3)); for a negative radius minus the
\* greatest whole number that is at most the positive quotient.
CeilRows(radiusM, spacingM) ==
  LET range == 0..((2 * Abs(radiusM)) \div spacingM + 1) IN
  IF radiusM >= 0
  THEN CHOOSE n \in range :
         /\ 3 * n * n * spacingM * spacingM >= 4 * radiusM * radiusM
         /\ \A m \in range : 3 * m * m * spacingM * spacingM >= 4 * radiusM * radiusM => n <= m
  ELSE - (CHOOSE k \in range :
            /\ 3 * k * k * spacingM * spacingM <= 4 * radiusM * radiusM
            /\ \A m \in range : 3 * m * m * spacingM * spacingM <= 4 * radiusM * radiusM => m <= k)

\* Math.ceil(radiusM / spacingM).
CeilCols(radiusM, spacingM) == - ((- radiusM) \div spacingM)

\* The remainder of JavaScript: it has the sign of the dividend.
JsRem(a, n) == IF a >= 0 THEN a % n ELSE - ((- a) % n)

\* Mutant: an odd row recognised by a remainder of 1 only.
IsOddRow_RemainderOne(row) == JsRem(row, 2) = 1

\* (row % 2 !== 0).
IsOddRow(row) == JsRem(row, 2) # 0

\* x = col * spacingM + offset, in halves of spacingM.
HalfX(row, col) == 2 * col + (IF IsOddRow(row) THEN 1 ELSE 0)

\* if (Math.abs(y) > radiusM) continue.
RowSkipped(row, radiusM, spacingM) ==
  radiusM < 0 \/ 3 * row * row * spacingM * spacingM > 4 * radiusM * radiusM

\* Mutant: no point left out for its distance.
OutsideRadius_Never(hx, row, radiusM, spacingM) == FALSE

\* if (dist > radiusM) continue.
OutsideRadius(hx, row, radiusM, spacingM) ==
  radiusM < 0 \/ FourDistSquared(hx, row, spacingM) > 4 * radiusM * radiusM

\* The (row, col) pairs in the order of the two loops.
GridCells(maxRows, maxCols) ==
  IF maxRows < 0 \/ maxCols < 0 THEN <<>>
  ELSE [k \in 1..((2 * maxRows + 1) * (2 * maxCols + 1)) |->
          [row |-> ((k - 1) \div (2 * maxCols + 1)) - maxRows,
           col |-> ((k - 1) % (2 * maxCols + 1)) - maxCols]]

\* destinationPoint(centerLat, centerLng, bearingToPoint, dist) with
\* bearingToPoint = atan2(x, y): the point at the bearing of (x, y) and at the
\* distance dist from the center, kept as the center and the displacement.
GridPoint(centerLat, centerLng, hx, row, spacingM) ==
  [centerLat |-> centerLat, centerLng |-> centerLng,
   bearing |-> <<hx, row>>, fourDistSquared |-> FourDistSquared(hx, row, spacingM)]

generateHexGrid(centerLat, centerLng, radiusM, spacingM) ==
  LET cells == GridCells(CeilRows(radiusM, spacingM), CeilCols(radiusM, spacingM))
      Pushed(cell) ==
        /\ ~ RowSkipped(cell.row, radiusM, spacingM)
        /\ ~ OutsideRadius(HalfX(cell.row, cell.col), cell.row, radiusM, spacingM)
      kept == SelectSeq(cells, Pushed)
  IN  [i \in 1..Len(kept) |->
         GridPoint(centerLat, centerLng, HalfX(kept[i].row, kept[i].col), kept[i].row, spacingM)]

GridRadii == {-700, -350, -1, 0, 1, 175, 350, 500, 700, 1000, 1050}
GridSpacings == {350, 500, 1000}

GridCalls ==
  {[pc |-> "called", f |-> "generateHexGrid", centerLat |-> lat, centerLng |-> 0,
    radiusM |-> r, spacingM |-> s, points |-> <<>>] :
     lat \in {0, 5000, 20000}, r \in GridRadii, s \in GridSpacings}

generateHexGridReturns ==
  /\ fn.pc = "called" /\ fn.f = "generateHexGrid"
  /\ fn' = [fn EXCEPT
              !.points = generateHexGrid(fn.centerLat, fn.centerLng, fn.radiusM, fn.spacingM),
              !.pc = "returned"]

\* main.js, the callback runAnalysis hands to analyzeViewshed: the percentage
\* set for a report (done, total, phase), in thousandths of a percent; 0 / 0
\* is NaN.
ProgressPercent(report) ==
  IF report[2] = 0 THEN Undefined
  ELSE IF report[3] = "elevation" THEN 50000 + (report[1] * 30000) \div report[2]
  ELSE 80000 + (report[1] * 15000) \div report[2]

\* ---------------------------------------------------------------- geocoder
\* geocoder.js: rateLimitWait and geocode.  Time is counted in tenths of a
\* second; the first call is made once the page has been open for a while.

MaxClock == 26
RATE_LIMIT_WAIT == 11
FirstCallAt == RATE_LIMIT_WAIT

IdleGeocode == [pc |-> "idle", wakeAt |-> 0, attempt |-> 0]

IdleGeocoder ==
  [now |-> FirstCallAt, lastRequestTime |-> 0,
   calls |-> [c \in Calls |-> IdleGeocode], sent |-> <<>>]

\* rateLimitWait after its wait, and geocode up to the fetch of fetchWithRetry:
\* lastRequestTime = Date.now(), and the request is sent.
AfterRateLimitWait(g, c) ==
  [g EXCEPT !.lastRequestTime = g.now, !.calls[c].pc = "fetching",
            !.sent = Append(@, g.now)]

\* geocode(query): rateLimitWait reads the clock and lastRequestTime and either
\* sets its timer or goes on at once.
geocode(c) ==
  /\ geo.calls[c].pc = "idle"
  /\ LET elapsed == geo.now - geo.lastRequestTime IN
     geo' = IF elapsed < RATE_LIMIT_WAIT
            THEN [geo EXCEPT !.calls[c].pc = "waiting",
                             !.calls[c].wakeAt = geo.now + (RATE_LIMIT_WAIT - elapsed)]
            ELSE AfterRateLimitWait(geo, c)

\* The timer of rateLimitWait fires.
RateLimitTimerFires(c) ==
  /\ geo.calls[c].pc = "waiting" /\ geo.calls[c].wakeAt <= geo.now
  /\ geo' = AfterRateLimitWait(geo, c)

\* The request fails or comes back: fetchWithRetry returns, throws or waits
\* for its next attempt.
GeocodeResponds(c, o) ==
  /\ geo.calls[c].pc = "fetching"
  /\ LET step == fetchWithRetryStep(geo.calls[c].attempt, DefaultMaxRetries, o) IN
     geo' = IF step = "retry"
            THEN [geo EXCEPT !.calls[c].pc = "backoff",
                             !.calls[c].wakeAt =
                                geo.now + BackoffMs(geo.calls[c].attempt) \div 100]
            ELSE [geo EXCEPT !.calls[c] = IdleGeocode]

\* The backoff timer of fetchWithRetry fires: the request is sent again.
GeocodeRetries(c) ==
  /\ geo.calls[c].pc = "backoff" /\ geo.calls[c].wakeAt <= geo.now
  /\ geo' = [geo EXCEPT !.calls[c].pc = "fetching", !.calls[c].attempt = @ + 1,
                        !.sent = Append(@, geo.now)]

\* A tenth of a second passes; timers that are due fire first.
ClockTicks ==
  /\ geo.now < MaxClock
  /\ \A c \in Calls :
       geo.calls[c].pc \in {"waiting", "backoff"} => geo.calls[c].wakeAt > geo.now
  /\ geo' = [geo EXCEPT !.now = @ + 1]

\* ------------------------------------------------------- specifications

\* The program after its modules are loaded.
InitProgram ==
  /\ elevationCache = <<>>
  /\ call = [c \in Calls |-> IdleCall]
  /\ resolvedKeys = {}
  /\ rt = IdleRetry
  /\ tileImageCache = <<>>
  /\ promises = <<>>
  /\ tileElevationCache = <<>>
  /\ tcall = [c \in Calls |-> IdleTileCall]
  /\ downloads = [key \in AllTileKeys |-> 0]
  /\ run = [r \in RunIds |-> IdleRun]
  /\ ui = [booted |-> FALSE, location |-> Null, mode |-> "sunset", isLoading |-> FALSE,
           weatherEnabled |-> TRUE, picker |-> {}, progress |-> 0, error |-> "none",
           hash |-> Null, resultsOf |-> 0, weatherOf |-> 0]
  /\ staleUpdate = FALSE
  /\ vs = IdleViewshed
  /\ geo = IdleGeocoder

IdleFn == [pc |-> "idle"]

Init == InitProgram /\ fn = IdleFn

CallStep(c) ==
  \/ PoolLaunch(c)
  \/ PoolAwaitAll(c)
  \/ \E b \in DOMAIN call[c].task :
       \/ TaskStart(c, b)
       \/ \E o \in Outcomes : PrimaryResponds(c, b, o)
       \/ \E o \in Bodies : PrimaryBody(c, b, o)
       \/ \E o \in Outcomes : FallbackResponds(c, b, o)
       \/ \E o \in Bodies : FallbackBody(c, b, o)
  \/ MergeAndReturn(c)
  \/ CallerResumes(c)

\* One provider-strategy call at a time, calls in sequence sharing the cache.
NextProvider ==
  \/ \E pts \in InputLists(MaxPoints) : fetchElevations(1, pts)
  \/ CallStep(1)
  \/ clearElevationCache

Next == NextProvider /\ UNCHANGED <<rt, tileVars, runVars, vs, fn, geo>>

Spec == Init /\ [][Next]_vars

\* One call over points of a single coordinate: long lists, many batches.
NextPoolCall ==
  \/ \E pts \in UNION {[1..m -> {Point(1)}] : m \in 0..MaxPoolPoints} : fetchElevations(1, pts)
  \/ CallStep(1)

NextPool == NextPoolCall /\ UNCHANGED <<rt, tileVars, runVars, vs, fn, geo>>

SpecPool == Init /\ [][NextPool]_vars

\* Two provider-strategy calls interleaved at their awaits.
NextConcCalls ==
  \/ \E c \in Calls : \E pts \in InputLists(MaxConcPoints) : fetchElevations(c, pts)
  \/ \E c \in Calls : CallStep(c)
  \/ clearElevationCache

NextConc == NextConcCalls /\ UNCHANGED <<rt, tileVars, runVars, vs, fn, geo>>

SpecConc == Init /\ [][NextConc]_vars

\* fetchWithRetry on its own, called from each of its call sites.
NextRetryCall ==
  \/ \E caller \in RetryCallers : fetchWithRetry(caller)
  \/ \E o \in Outcomes : RetryResponds(o)
  \/ RetryTimerFires
  \/ RetryCallerResumes

NextRetry == NextRetryCall /\ UNCHANGED <<providerVars, tileVars, runVars, vs, fn, geo>>

SpecRetry == Init /\ [][NextRetry]_vars

\* The tile strategy: two calls interleaved at their awaits, tiles loading or
\* failing in any order, the caches cleared at any await.
NextTileCalls ==
  \/ \E c \in Calls : \E pts \in UNION {[1..m -> {Point(l) : l \in TileLats}] : m \in 0..MaxTilePoints} :
       tileFetchElevations(c, pts)
  \/ \E id \in 1..MaxDownloads : TileLoads(id)
  \/ \E id \in 1..MaxDownloads : TileFails(id)
  \/ \E c \in Calls : TileLookup(c)
  \/ \E c \in Calls : TileCallerResumes(c)
  \/ tileClearElevationCache

NextTile == NextTileCalls /\ UNCHANGED <<providerVars, rt, runVars, vs, fn, geo>>

SpecTile == Init /\ [][NextTile]_vars

\* The page: user events and the settling of each run's awaits, in any order.
NextRuns ==
  \/ \E hash \in {Null} \cup Locations : \E mode \in Modes : initUI(hash, mode)
  \/ \E r \in RunIds : handleSearch(r)
  \/ \E r \in RunIds : \E found \in SUBSET Locations : GeocodeSettles(r, found)
  \/ \E r \in RunIds : \E lat \in Locations : pickLocation(r, lat)
  \/ \E r \in RunIds : modeToggle(r)
  \/ weatherToggle
  \/ errorTimerFires
  \/ \E r \in RunIds : \E pct \in {10, 30, 50} : ElevationsProgress(r, pct)
  \/ \E r \in RunIds : \E ok \in BOOLEAN : ElevationsSettle(r, ok)
  \/ \E r \in RunIds : \E ok \in BOOLEAN : ViewshedSettles(r, ok)
  \/ \E r \in RunIds : DisplayThrows(r)
  \/ \E r \in RunIds : \E ok \in BOOLEAN : WeatherSettles(r, ok)

NextRun == NextRuns /\ UNCHANGED <<providerVars, rt, tileVars, vs, fn, geo>>

SpecRun == Init /\ [][NextRun]_vars

\* What the run r is awaiting settles: the geocoder, the elevation service,
\* analyzeViewshed (with the ranking and display that follow it), the weather
\* service.
RunSettles(r) ==
  /\ \/ \E found \in SUBSET Locations : GeocodeSettles(r, found)
     \/ \E ok \in BOOLEAN : ElevationsSettle(r, ok)
     \/ \E ok \in BOOLEAN : ViewshedSettles(r, ok)
     \/ DisplayThrows(r)
     \/ \E ok \in BOOLEAN : WeatherSettles(r, ok)
  /\ UNCHANGED <<providerVars, rt, tileVars, vs, fn, geo>>

\* Every network request and the worker eventually settle.
SpecRunFair == SpecRun /\ \A r \in RunIds : WF_vars(RunSettles(r))

\* analyzeViewshed on its own: candidates, ray answers and worker outcomes.
NextViewshedCall ==
  \/ \E cands \in UNION {[1..m -> Candidates] : m \in 0..MaxCandidates} :
       \E b \in Bearings : analyzeViewshed(cands, b)
  \/ \E answers \in UNION {[1..m -> RayAnswers] : m \in 0..MaxCandidates} :
       RayElevationsSettle(answers)
  \/ \E done \in RayProgressCounts : RayElevationsProgress(done)
  \/ WorkerCreationFails
  \/ WorkerStarts
  \/ WorkerIterates
  \/ WorkerPostsResult
  \/ WorkerRaisesError
  \/ WorkerEventHandled
  \/ ViewshedCallerResumes

NextViewshed == NextViewshedCall /\ UNCHANGED <<providerVars, rt, tileVars, runVars, fn, geo>>

SpecViewshed == Init /\ [][NextViewshed]_vars

InitObstruction ==
  /\ InitProgram
  /\ fn \in ObstructionCalls

NextObstruction ==
  computeObstructionReturns /\ UNCHANGED <<providerVars, rt, tileVars, runVars, vs, geo>>

SpecObstruction == InitObstruction /\ [][NextObstruction]_vars

InitRay == InitProgram /\ fn \in RayCalls

NextRay ==
  generateRayPointsReturns /\ UNCHANGED <<providerVars, rt, tileVars, runVars, vs, geo>>

SpecRay == InitRay /\ [][NextRay]_vars

InitScore == InitProgram /\ fn \in ScoreCalls

NextScore ==
  scoreCandidateReturns /\ UNCHANGED <<providerVars, rt, tileVars, runVars, vs, geo>>

SpecScore == InitScore /\ [][NextScore]_vars

InitRank == InitProgram /\ fn \in RankCalls

NextRank ==
  rankCandidatesReturns /\ UNCHANGED <<providerVars, rt, tileVars, runVars, vs, geo>>

SpecRank == InitRank /\ [][NextRank]_vars

InitGrid == InitProgram /\ fn \in GridCalls

NextGrid ==
  generateHexGridReturns /\ UNCHANGED <<providerVars, rt, tileVars, runVars, vs, geo>>

SpecGrid == InitGrid /\ [][NextGrid]_vars

NextGeocodeCalls ==
  \/ \E c \in Calls : geocode(c)
  \/ \E c \in Calls : RateLimitTimerFires(c)
  \/ \E c \in Calls : \E o \in Outcomes : GeocodeResponds(c, o)
  \/ \E c \in Calls : GeocodeRetries(c)
  \/ ClockTicks

NextGeocode == NextGeocodeCalls /\ UNCHANGED <<providerVars, rt, tileVars, runVars, vs, fn>>

SpecGeocode == Init /\ [][NextGeocode]_vars

\* ----------------------------------------------------------------- claims

\* Position of input index i among the misses, and the batch and the slot of
\* the batch that the j-th miss was sent in (both 1-based).
PosOf(k, i) == CHOOSE j \in DOMAIN k.uncachedIndices : k.uncachedIndices[j] = i
BatchOf(j) == ((j - 1) \div BATCH_SIZE) + 1
SlotOf(j) == ((j - 1) % BATCH_SIZE) + 1
IsMiss(k, i) == \E j \in DOMAIN k.uncachedIndices : k.uncachedIndices[j] = i
NullIfNullish(v) == IF isNullish(v) THEN Null ELSE v

\* The elevation input point i of call c resolved to: the value the cache
\* held when the call started, or what its own request returned at its own
\* position (null when that is missing).
ResolvedFor(c, i) ==
  LET k == call[c] IN
  IF ~IsMiss(k, i) THEN k.startCache[KeyOf(k.points[i])]
  ELSE NullIfNullish(At(k.task[BatchOf(PosOf(k, i))].ret, SlotOf(PosOf(k, i))))

\* C1: a call that returns gives a list as long as its input in which entry
\* i carries the lat/lng of input i and the elevation resolved for input i
\* (cached value, or the value of its own request at its own position, or
\* null), whatever the order in which the batches settled.
C1_PositionalCorrespondence ==
  \A c \in Calls :
    LET k == call[c] IN
    k.pc = "returned" =>
      /\ Len(k.results) = Len(k.points)
      /\ \A i \in DOMAIN k.points :
           /\ k.results[i].lat = k.points[i].lat
           /\ k.results[i].lng = k.points[i].lng
           /\ k.results[i].elevation = ResolvedFor(c, i)
           /\ k.results[i].elevation \in {Null, Terrain(KeyOf(k.points[i]))}
           /\ IsMiss(k, i) =>
                Batches(c)[BatchOf(PosOf(k, i))][SlotOf(PosOf(k, i))] = k.points[i]

\* C1 witness: a returned call of two batches where the second batch settled
\* first, the first batch failed (nulls) and the second brought its value.
C1_Witness ==
  \E c \in Calls :
    LET k == call[c] IN
    /\ k.pc = "returned" /\ Len(k.task) = 2 /\ Len(k.points) = 3
    /\ k.progress[1] = <<1, 3>>
    /\ k.task[1].ret = <<Null, Null>>
    /\ k.results[1].elevation = Null /\ k.results[3].elevation = Terrain(KeyOf(k.points[3]))
    /\ k.points[1] # k.points[3]

\* Keys of the points sent in a request of call c so far.
RequestedKeys(c) ==
  UNION {{KeyOf(Batches(c)[b][i]) : i \in DOMAIN Batches(c)[b]} :
           b \in {b \in DOMAIN call[c].task : call[c].task[b].st \notin {"none", "created"}}}

AllCachedAtStart(k) == \A i \in DOMAIN k.points : KeyOf(k.points[i]) \in DOMAIN k.startCache

\* C3: no request of a call carries a point whose key was cached when the
\* call started; a call all of whose points were cached starts no batch and
\* reports progress exactly once, as (N, N).
C3_CachedNeverRequested ==
  \A c \in Calls :
    LET k == call[c] IN
    k.pc # "idle" =>
      /\ RequestedKeys(c) \cap DOMAIN k.startCache = {}
      /\ AllCachedAtStart(k) =>
           /\ k.pc = "returned"
           /\ k.task = <<>>
           /\ k.progress = << <<Len(k.points), Len(k.points)>> >>

\* C3 witness: a list of three points over both keys, all resolved by earlier
\* calls, resolved again from the cache.
C3_Witness ==
  \E c \in Calls :
    LET k == call[c] IN
    /\ k.pc = "returned" /\ Len(k.points) = 3 /\ ~k.cleared
    /\ AllCachedAtStart(k)
    /\ {KeyOf(k.points[i]) : i \in DOMAIN k.points} = AllKeys
    /\ AllKeys \subseteq resolvedKeys

\* C4 (as claimed): at most 3 HTTP attempts by default and at most 2 for an
\* elevation batch before fetchWithRetry reports the failure.
C4_Original ==
  rt.pc # "idle" => rt.issued <= (IF IsBatchCaller(rt.caller) THEN 2 ELSE 3)

\* C4 (amended): at most maxRetries + 1 attempts: 4 by default, 3 for an
\* elevation batch; the failure is reported after exactly that many.
C4_AttemptsBounded ==
  rt.pc # "idle" =>
    /\ rt.issued <= (IF IsBatchCaller(rt.caller) THEN 3 ELSE 4)
    /\ rt.pc = "thrown" => rt.issued = (IF IsBatchCaller(rt.caller) THEN 3 ELSE 4)
    /\ rt.issued = Len(rt.responses) + (IF rt.pc = "fetching" THEN 1 ELSE 0)

\* C4 witness: a default call that failed after its fourth attempt.
C4_Witness ==
  rt.pc = "thrown" /\ rt.caller = "geocode" /\ rt.issued = 4 /\ Len(rt.waits) = 3

\* Steps that take batch b of call c from the primary provider to the
\* fallback provider.
ToFallback(c, b) ==
  /\ b \in DOMAIN call[c].task /\ b \in DOMAIN call'[c].task
  /\ call[c].task[b].st # "fallback"
  /\ call'[c].task[b].st = "fallback"

\* C5, second half: when both providers failed for a batch its points are
\* null, and the points of a batch whose request brought data have that data.
C5_Isolation ==
  \A c \in Calls :
    LET k == call[c] IN
    k.pc \in {"returned", "thrown"} =>
      \A j \in DOMAIN k.uncachedIndices :
        LET ret == k.task[BatchOf(j)].ret
            e == k.results[k.uncachedIndices[j]].elevation
        IN /\ ret = AllNull(Batches(c)[BatchOf(j)]) => e = Null
           /\ (Len(ret) = Len(Batches(c)[BatchOf(j)]) /\ ret # AllNull(Batches(c)[BatchOf(j)]))
                => e = ret[SlotOf(j)] /\ e = Terrain(KeyOf(k.points[k.uncachedIndices[j]]))

\* C5 (as claimed): the fallback provider is queried only after the primary
\* failed with all its retries exhausted; both failing nulls exactly that batch.
C5_Original ==
  /\ [][\A c \in Calls : \A b \in 1..MaxPoints + 1 :
          ToFallback(c, b) =>
            call[c].task[b].st = "primary" /\ call[c].task[b].attempt = BatchMaxRetries]_vars
  /\ []C5_Isolation

\* C5 (amended): the fallback provider is queried only after the primary
\* failed, either with all its retries exhausted or because the body of its
\* 2xx response could not be read; both failing nulls exactly that batch.
C5_FallbackAfterPrimary ==
  /\ [][\A c \in Calls : \A b \in 1..MaxPoints + 1 :
          ToFallback(c, b) =>
            \/ call[c].task[b].st = "primary" /\ call[c].task[b].attempt = BatchMaxRetries
            \/ call[c].task[b].st = "primaryJson"]_vars
  /\ []C5_Isolation

\* C5 witness: of two batches the second failed at both providers and the
\* first brought its data.
C5_Witness ==
  \E c \in Calls :
    LET k == call[c] IN
    /\ k.pc = "returned" /\ Len(k.task) = 2
    /\ k.task[2].ret = <<Null>>
    /\ k.task[1].ret = <<Terrain(KeyOf(k.points[1])), Terrain(KeyOf(k.points[2]))>>
    /\ k.results[3].elevation = Null
    /\ k.results[1].elevation = 0 /\ k.results[2].elevation = 100

\* Batches whose fn was called and has not settled.
InFlight(c) ==
  {b \in DOMAIN call[c].task :
     call[c].task[b].st \in {"primary", "primaryJson", "fallback", "fallbackJson"}}

\* C6: never more than CONCURRENCY invocations of the batch callback are
\* started and not yet settled, for any number of batches and settle order.
C6_PoolBound ==
  \A c \in Calls :
    /\ Cardinality(InFlight(c)) <= CONCURRENCY
    /\ InFlight(c) \subseteq call[c].executing

\* C6 witness: three batches, the second settled first, the third took its
\* place beside the first.
C6_Witness ==
  \E c \in Calls : Len(call[c].task) = 3 /\ InFlight(c) = {1, 3}

\* C9, the state part: the cache never holds null, holds exactly the keys
\* resolved to non-null since the last clear, and holds every non-null point
\* of a call that returns (no clear having hit the call).
C9_CacheExact ==
  /\ \A key \in DOMAIN elevationCache : ~isNullish(elevationCache[key])
  /\ DOMAIN elevationCache = resolvedKeys
  /\ \A c \in Calls :
       LET k == call[c] IN
       (k.pc = "returned" /\ ~k.cleared) =>
         \A i \in DOMAIN k.points :
           ~isNullish(k.results[i].elevation) => KeyOf(k.points[i]) \in DOMAIN elevationCache

\* C9: the cache is exact in every state, and only clearElevationCache
\* removes a key.
C9_CacheAppendOnly ==
  /\ []C9_CacheExact
  /\ [][clearElevationCache \/ DOMAIN elevationCache \subseteq DOMAIN elevationCache']_vars

\* C9 witness: two interleaved calls for the same point; the first has
\* returned it at sea level and cached it while the second, started on an
\* empty cache, is still fetching it.
C9_Witness ==
  /\ call[1].pc = "returned" /\ call[2].pc = "pool"
  /\ call[1].points = <<Point(0)>> /\ call[2].points = <<Point(0)>>
  /\ call[1].results[1].elevation = 0
  /\ call[2].startCache = <<>> /\ ~call[1].cleared /\ ~call[2].cleared
  /\ KeyOf(Point(0)) \in DOMAIN elevationCache

\* Cache hits of a tile-strategy call: the points the partition loop resolved.
TileHits(k) == Len(k.points) - Len(k.uncachedIndices)

TileFinished(k) == k.pc \in {"returned", "thrown"}

\* C2: for a non-empty input, fetchElevations throws if and only if no point
\* of the input ends up with a non-null elevation; with at least one point
\* resolved (from the cache or from a tile) it returns normally and the failed
\* points have elevation null. Stated for the tile strategy.
C2_ThrowsIffNoneResolved ==
  \A c \in Calls :
    LET k == tcall[c] IN
    (TileFinished(k) /\ Len(k.points) > 0) =>
      /\ (k.pc = "thrown") <=> (\A i \in 1..Len(k.points) : isNullish(k.results[i].elevation))
      /\ \A i \in 1..Len(k.points) :
           /\ k.results[i].lat = k.points[i].lat
           /\ k.results[i].lng = k.points[i].lng

\* C7: between two cache clears each tile key has at most one download
\* started, and the promise of that download is the one tileImageCache holds:
\* a request for a tile in flight or finished starts no second download.
C7_OneDownloadPerTile ==
  \A key \in AllTileKeys :
    /\ downloads[key] <= 1
    /\ (downloads[key] = 1) <=> (key \in DOMAIN tileImageCache)
    /\ \A c \in Calls :
         (tcall[c].pc = "loading" /\ key \in DOMAIN tcall[c].waits
            /\ key \in DOMAIN tileImageCache
            /\ tcall[c].waits[key] >= tileImageCache[key])
           => tcall[c].waits[key] = tileImageCache[key]

\* Two calls wait for one tile on the same promise, one download started, and
\* one of them asked for the tile after it had finished loading.
C7_Witness ==
  \E key \in AllTileKeys :
    /\ downloads[key] = 1
    /\ \A c \in Calls :
         /\ tcall[c].pc = "loading"
         /\ key \in DOMAIN tcall[c].waits
         /\ tcall[c].waits[key] = tileImageCache[key]
    /\ promises[tileImageCache[key]].st = "loaded"

\* C8: every progress callback of a call over N points with h cache hits
\* reports total N and h <= completed <= N, the completed counts never
\* decrease, and the last callback reports N. Stated for the tile strategy.
C8_ProgressBounded ==
  \A c \in Calls :
    LET k == tcall[c]
        N == Len(k.points)
    IN k.pc # "idle" =>
         /\ \A j \in 1..Len(k.progress) :
              /\ k.progress[j][2] = N
              /\ TileHits(k) <= k.progress[j][1]
              /\ k.progress[j][1] <= N
         /\ \A j \in 1..(Len(k.progress) - 1) : k.progress[j][1] <= k.progress[j + 1][1]
         /\ TileFinished(k) =>
              (Len(k.progress) > 0 /\ k.progress[Len(k.progress)][1] = N)

\* C10: at most one analysis run is active at a time: a run started while an
\* earlier one has not completed cancels it, and the earlier run performs no
\* result or display update afterwards.
C10_OneRunAtATime ==
  /\ Cardinality({r \in RunIds : Active(r)}) <= 1
  /\ ~staleUpdate
  /\ \A r \in RunIds : run[r].superseded => ui.resultsOf # r

\* C11: a failure to resolve ray-sample elevations, for some or for all of the
\* samples, never aborts the run: analyzeViewshed still returns one result per
\* valid candidate.
C11_RayFailureNeverAborts ==
  /\ vs.pc # "thrown"
  /\ vs.pc = "returned" => Len(vs.results) = Len(vs.validCandidates)

\* C13: every ray sample handed to the obstruction computation carries the
\* distance at which it was generated: it lies at that distance from its
\* candidate along the sun bearing, also when other samples were dropped.
C13_DistanceAsGenerated ==
  vs.pc \in {"worker", "returned"} =>
    \A i \in 1..Len(vs.rayElevations) :
      \A j \in 1..Len(vs.rayElevations[i]) :
        LET sample == vs.rayElevations[i][j]
            c == vs.validCandidates[i]
        IN /\ sample.distance % RAY_SAMPLE_SPACING = 0
           /\ sample.lat = destinationPoint(c.lat, c.lng, vs.sunBearing, sample.distance).lat

\* The candidates of the input with a non-null elevation, in input order.
NonNullCandidates(cands) == SelectSeq(cands, LAMBDA c : c.elevation # Null)

\* C14: analyzeViewshed returns exactly one result per input candidate with a
\* non-null elevation, in input order, and none for a candidate with null
\* elevation, from the worker or from the main-thread fallback.
C14_OneResultPerValidCandidate ==
  vs.pc = "returned" =>
    LET want == NonNullCandidates(vs.candidates) IN
    /\ Len(vs.results) = Len(want)
    /\ \A i \in 1..Len(want) :
         /\ vs.results[i].lat = want[i].lat
         /\ vs.results[i].lng = want[i].lng
         /\ vs.results[i].elevation = want[i].elevation
         /\ vs.results[i].elevation # Null

\* A null-elevation candidate first and a sea-level one second, computed by
\* the main-thread fallback: one result, for the second.
C14_Witness ==
  /\ vs.pc = "returned"
  /\ vs.computedBy = "main"
  /\ Len(vs.candidates) = 2
  /\ vs.candidates[1].elevation = Null
  /\ vs.candidates[2].elevation = 0
  /\ Len(vs.results) = 1

\* C12: if elevation resolution for the candidate grid fails, the run ends
\* with the error 'Elevation data unavailable', the loading state is cleared,
\* and neither viewshed analysis nor ranking nor any result display happens
\* for that run.
C12_GridFailureEndsRun ==
  [][\A r \in RunIds :
       /\ (run'[r].gridFailed /\ ~run[r].gridFailed) =>
            /\ run[r].pc = "elevations"
            /\ run'[r].pc = "done"
            /\ ui'.isLoading = FALSE
            /\ ui'.error = "Elevation data unavailable"
            /\ ui'.resultsOf = ui.resultsOf
       /\ run[r].gridFailed =>
            /\ run'[r].pc = "done"
            /\ ui'.resultsOf # r
            /\ ui'.weatherOf # r]_vars

\* A run whose grid elevations failed is over and the page shows the error,
\* while the results of an earlier run stay displayed.
C12_Witness ==
  \E r \in RunIds :
    /\ run[r].gridFailed
    /\ run[r].pc = "done"
    /\ ui.error = "Elevation data unavailable"
    /\ ~ui.isLoading
    /\ ui.resultsOf \notin {0, r}

\* tan a < tan b for two angles kept as pairs <<y, x>> with x >= 0.
TanLess(a, b) ==
  IF a[2] = 0 /\ b[2] = 0 THEN a[1] < b[1] ELSE a[1] * b[2] < b[1] * a[2]

\* C15: the obstruction angle of every result lies in [-90, 90]; with no
\* samples it is exactly -90 with maxBlockerDistance 0 and isClear true; with
\* at least one sample it is above -90 and maxBlockerDistance is the distance
\* of one of the samples, within [RAY_SAMPLE_SPACING, RAY_MAX_DISTANCE].
C15_ObstructionRange ==
  (fn.pc = "returned" /\ fn.f = "computeObstruction") =>
    LET r == fn.result
        n == Len(fn.raySamples)
    IN /\ ~TanLess(r.obstructionAngle, <<-1, 0>>)
       /\ ~TanLess(<<1, 0>>, r.obstructionAngle)
       /\ n = 0 => /\ r.obstructionAngle = <<-1, 0>>
                   /\ r.maxBlockerDistance = 0
                   /\ r.isClear
       /\ n > 0 => /\ TanLess(<<-1, 0>>, r.obstructionAngle)
                   /\ \E j \in 1..n : fn.raySamples[j].distance = r.maxBlockerDistance
                   /\ r.maxBlockerDistance >= RAY_SAMPLE_SPACING
                   /\ r.maxBlockerDistance <= RAY_MAX_DISTANCE

\* Two samples, the terrain far below the candidate at both: the angle is
\* negative, above -90, and the blocker is the farther sample.
C15_Witness ==
  /\ fn.pc = "returned" /\ fn.f = "computeObstruction"
  /\ Len(fn.raySamples) = 2
  /\ fn.candidate.elevation = 100
  /\ \A j \in 1..2 : fn.raySamples[j].elevation = -50
  /\ fn.result.maxBlockerDistance = 7800
  /\ fn.result.isClear

\* elevation >= candidate elevation + tan(0.5 degrees) * distance for a
\* sample, its elevation taken as read (raw) or less the curvature drop beyond
\* CURVATURE_THRESHOLD; in the units of SlopeOf, y >= x * 5559.887469...
AtOrAboveMargin(candidate, sample, raw) ==
  LET x == sample.distance \div 100
      drop == IF raw \/ sample.distance <= CURVATURE_THRESHOLD THEN 0 ELSE 5 * x * x
      y == (sample.elevation - candidate.elevation) * (R_EARTH \div 1000) - drop
  IN y > x * 5559 + ((x * 887469) \div 1000000)

\* C16 as stated: if any ray sample has an elevation >= candidate elevation +
\* tan(0.5 degrees) * distance, computeObstruction returns isClear = false.
C16_Original ==
  (fn.pc = "returned" /\ fn.f = "computeObstruction") =>
    ((\E j \in 1..Len(fn.raySamples) :
        AtOrAboveMargin(fn.candidate, fn.raySamples[j], TRUE))
       => ~fn.result.isClear)

\* C16 amended: if any ray sample has an elevation, less curvatureDrop(distance)
\* when its distance is above CURVATURE_THRESHOLD, >= candidate elevation +
\* tan(0.5 degrees) * distance, computeObstruction returns isClear = false.
C16_ObstructedAboveMargin ==
  (fn.pc = "returned" /\ fn.f = "computeObstruction") =>
    ((\E j \in 1..Len(fn.raySamples) :
        AtOrAboveMargin(fn.candidate, fn.raySamples[j], FALSE))
       => ~fn.result.isClear)

\* A near sample below the candidate and a far one (7800 m, beyond the
\* curvature threshold) above the margin after the correction: obstructed.
C16_Witness ==
  /\ fn.pc = "returned" /\ fn.f = "computeObstruction"
  /\ Len(fn.raySamples) = 2
  /\ fn.raySamples[1].distance = 300 /\ fn.raySamples[1].elevation < fn.candidate.elevation
  /\ fn.raySamples[2].distance = 7800
  /\ AtOrAboveMargin(fn.candidate, fn.raySamples[2], FALSE)
  /\ ~fn.result.isClear

\* C17 as stated: the i-th point has distance exactly i * spacing, every
\* distance is <= maxDist, and the farthest sample lies at maxDist, for
\* 3000 / 300 and for the defaults 8000 / 300.
C17_Original ==
  (fn.pc = "returned" /\ fn.f = "generateRayPoints" /\ fn.spacing = 300
     /\ fn.maxDist \in {3000, 8000}) =>
    LET n == Len(fn.result) IN
    /\ \A i \in 1..n : fn.result[i].distance = i * fn.spacing
    /\ \A i \in 1..n : fn.result[i].distance <= fn.maxDist
    /\ n > 0 /\ fn.result[n].distance = fn.maxDist

\* C17 amended: the i-th point has distance exactly i * spacing and the ray
\* holds every multiple of the spacing that is <= maxDist and no other, so its
\* farthest sample lies at floor(maxDist / spacing) * spacing: at 3000 for
\* 3000 / 300, at 7800 for the defaults 8000 / 300.
C17_RayDistances ==
  (fn.pc = "returned" /\ fn.f = "generateRayPoints") =>
    LET n == Len(fn.result) IN
    /\ \A i \in 1..n :
         /\ fn.result[i].distance = i * fn.spacing
         /\ fn.result[i].distance <= fn.maxDist
         /\ fn.result[i].lat =
              destinationPoint(fn.originLat, fn.originLng, fn.bearingDeg, i * fn.spacing).lat
    /\ (n + 1) * fn.spacing > fn.maxDist
    /\ (fn.maxDist = 3000 /\ fn.spacing = 300) => (n = 10 /\ fn.result[n].distance = 3000)
    /\ (fn.maxDist = 8000 /\ fn.spacing = 300) => (n = 26 /\ fn.result[n].distance = 7800)

\* The default ray: 26 samples, the farthest at 7800 m.
C17_Witness ==
  /\ fn.pc = "returned" /\ fn.f = "generateRayPoints"
  /\ fn.maxDist = RAY_MAX_DISTANCE /\ fn.spacing = RAY_SAMPLE_SPACING
  /\ Len(fn.result) = 26
  /\ fn.result[26].distance = 7800

\* C18: scoreCandidate returns an integer in [0, 100] for every candidate (any
\* obstruction angle in [-90, 90], any elevation, negative or above 1000 m,
\* any distance to the center) and for any options, with or without a center.
C18_ScoreRange ==
  fn.f = "scoreCandidate" =>
    \A i \in 1..Len(fn.scores) : fn.scores[i] \in 0..100

\* Two calls with a center for a point 3000 m below sea level: the sum of the
\* first candidate is negative and its score is 0, inside the range.
C18_Witness ==
  /\ fn.f = "scoreCandidate" /\ fn.pc = "returned"
  /\ fn.options.maxRadius = 10000
  /\ fn.candidates[1].elevation = -3000
  /\ fn.parts[1].obstruction + fn.parts[1].elevation
       + fn.parts[1].proximity + fn.parts[1].margin < 0
  /\ fn.scores[1] = 0
  /\ fn.candidates[2].obstructionAngle = 900
  /\ fn.scores[2] = 0

\* C19: each of the four components summed by scoreCandidate stays within its
\* range for every candidate: obstruction in [0, 40], elevation in [0, 30],
\* center proximity in [0, 15] (flat 10 when no center is given), clearance
\* margin in [0, 15].
C19_ComponentRanges ==
  fn.f = "scoreCandidate" =>
    \A i \in 1..Len(fn.parts) :
      LET p == fn.parts[i] IN
      /\ 0 <= p.obstruction /\ p.obstruction <= 40000
      /\ 0 <= p.elevation /\ p.elevation <= 30000
      /\ 0 <= p.proximity /\ p.proximity <= 15000
      /\ fn.options.centerLat = Undefined => p.proximity = 10000
      /\ 0 <= p.margin /\ p.margin <= 15000

\* C20: of two candidates with the same elevation and the same distance to
\* the center, one clear (obstruction angle < 0.5) and one obstructed (>= 0.5),
\* the clear one gets a strictly higher score.
C20_ClearBeatsObstructed ==
  (fn.f = "scoreCandidate" /\ fn.pc = "returned") =>
    \A i, j \in 1..2 :
      (fn.candidates[i].obstructionAngle < 5 /\ fn.candidates[j].obstructionAngle >= 5)
        => fn.scores[i] > fn.scores[j]

SameButElevation(c, d) ==
  /\ c.obstructionAngle = d.obstructionAngle /\ c.isClear = d.isClear
  /\ c.lat = d.lat /\ c.lng = d.lng

\* C21 as stated: of two candidates with the same obstruction result and the
\* same distance to the center, the one with the higher elevation gets a
\* strictly higher score.
C21_Original ==
  (fn.f = "scoreCandidate" /\ fn.pc = "returned") =>
    \A i, j \in 1..2 :
      (SameButElevation(fn.candidates[i], fn.candidates[j])
         /\ fn.candidates[i].elevation > fn.candidates[j].elevation)
        => fn.scores[i] > fn.scores[j]

\* C21 amended: the one with the higher elevation never gets a lower score,
\* and gets a strictly higher one when both elevations lie in [0, 1000] m and
\* are at least 34 m apart (one point after rounding): above 1000 m the
\* elevation component is saturated, and closer elevations may round alike.
C21_HigherElevationScoresNoLess ==
  (fn.f = "scoreCandidate" /\ fn.pc = "returned") =>
    \A i, j \in 1..2 :
      (SameButElevation(fn.candidates[i], fn.candidates[j])
         /\ fn.candidates[i].elevation > fn.candidates[j].elevation)
        => /\ fn.scores[i] >= fn.scores[j]
           /\ (fn.candidates[j].elevation >= 0 /\ fn.candidates[i].elevation <= 1000
                 /\ fn.candidates[i].elevation - fn.candidates[j].elevation >= 34)
                => fn.scores[i] > fn.scores[j]

\* Elevations of 500 and 534 m score one point apart, with a center.
C21_Witness ==
  /\ fn.f = "scoreCandidate" /\ fn.pc = "returned"
  /\ SameButElevation(fn.candidates[1], fn.candidates[2])
  /\ fn.candidates[1].elevation = 534 /\ fn.candidates[2].elevation = 500
  /\ fn.options.maxRadius = 10000
  /\ fn.scores[1] = fn.scores[2] + 1

RankReturned == fn.f = "rankCandidates" /\ fn.pc = "returned"

\* C22: rankCandidates returns one scored copy of every input candidate (the
\* sources are a permutation of the input positions), the input list and its
\* objects as they were, sorted by score in non-increasing order, with
\* rank = position (1..N), and equal scores in input order.
C22_RankedStableDescending ==
  RankReturned =>
    LET n == Len(fn.given) r == fn.result IN
    /\ fn.candidates = fn.given
    /\ Len(r) = n
    /\ {r[i].source : i \in 1..n} = 1..n
    /\ \A i \in 1..n :
         LET c == fn.given[r[i].source] IN
         /\ r[i].lat = c.lat /\ r[i].lng = c.lng /\ r[i].elevation = c.elevation
         /\ r[i].obstructionAngle = c.obstructionAngle /\ r[i].isClear = c.isClear
         /\ r[i].score = scoreCandidate(c, fn.options)
         /\ r[i].rank = i
    /\ \A i, j \in 1..n :
         i < j => /\ r[i].score >= r[j].score
                  /\ (r[i].score = r[j].score => r[i].source < r[j].source)

\* Three candidates given in ascending order of score, with a tie, come back
\* reordered.
C22_Witness ==
  /\ RankReturned /\ Len(fn.result) = 3
  /\ fn.result[1].source = 3
  /\ fn.result[2].source = 1 /\ fn.result[3].source = 2
  /\ fn.result[2].score = fn.result[3].score
  /\ fn.result[1].score > fn.result[2].score

GridReturned == fn.f = "generateHexGrid" /\ fn.pc = "returned"

\* C23: generateHexGrid returns an empty list whenever the radius is <= 0,
\* zero included, for every center and spacing.
C23_EmptyForNonPositiveRadius ==
  (GridReturned /\ fn.radiusM <= 0) => fn.points = <<>>

\* C24: every point emitted by generateHexGrid belongs to a lattice offset
\* (x, y) = (col * spacing + spacing / 2 for an odd row, row * rowSpacing)
\* with sqrt(x^2 + y^2) <= radius, and lies at that distance from the center
\* it was called with, negative odd rows included.
C24_PointsWithinRadius ==
  GridReturned =>
    \A i \in 1..Len(fn.points) :
      LET p == fn.points[i] hx == p.bearing[1] row == p.bearing[2] IN
      /\ p.centerLat = fn.centerLat /\ p.centerLng = fn.centerLng
      /\ (hx % 2 = 1) <=> (row % 2 = 1)
      /\ p.fourDistSquared = fn.spacingM * fn.spacingM * (hx * hx + 3 * row * row)
      /\ fn.radiusM >= 0
      /\ p.fourDistSquared <= 4 * fn.radiusM * fn.radiusM

\* A point of row -1 is emitted half a spacing east of a column, and a point
\* of the same row two columns out is left out.
C24_Witness ==
  /\ GridReturned /\ fn.radiusM = 700 /\ fn.spacingM = 350
  /\ \E i \in 1..Len(fn.points) : fn.points[i].bearing = <<1, -1>>
  /\ \A i \in 1..Len(fn.points) : fn.points[i].bearing # <<5, -1>>
  /\ Len(fn.points) > 7

\* C25: within one run (here from "Analyzing viewshed..." at 50 to the results
\* of analyzeViewshed, for at least one valid candidate) the percentage set
\* never decreases, the ray elevation fetch stays within 50..80 and the
\* obstruction analysis within 80..95, also when the worker reports progress,
\* fails, and the computation restarts on the main thread.
C25_ProgressNeverDecreases ==
  vs.validCandidates # <<>> =>
    /\ \A j \in 1..Len(vs.progress) :
         LET pct == ProgressPercent(vs.progress[j]) IN
         IF vs.progress[j][3] = "elevation"
         THEN 50000 <= pct /\ pct <= 80000
         ELSE 80000 <= pct /\ pct <= 95000
    /\ \A j \in 1..(Len(vs.progress) - 1) :
         ProgressPercent(vs.progress[j]) <= ProgressPercent(vs.progress[j + 1])

\* C26: the promise of computeInWorker never rejects; once it is resolved its
\* results stay (a result delivered by the worker is not replaced by a later
\* fallback); and once the worker could not be created or its error event was
\* handled, it is resolved with one result for every valid candidate.
C26_FallbackResolvesOnce ==
  [][/\ vs.pc = "worker" => vs'.pc \in {"worker", "returned"}
     /\ (vs.settled /\ vs'.pc # "idle") =>
          (vs'.settled /\ vs'.results = vs.results /\ vs'.computedBy = vs.computedBy)
     /\ vs'.fellBack =>
          /\ vs'.settled /\ vs'.pc = "returned"
          /\ vs'.results = ObstructionResults(vs'.validCandidates, vs'.rayElevations,
                                              vs'.sunBearing)
          /\ Len(vs'.results) = Len(vs'.validCandidates)
     /\ vs'.settled <=> vs'.pc = "returned"
    ]_vars

\* The worker reported progress and raised an error, and the results were
\* computed on the main thread.
C26_Witness ==
  /\ vs.pc = "returned" /\ vs.computedBy = "main" /\ vs.worker = "failed"
  /\ vs.workerAt > 0 /\ vs.fellBack
  /\ Len(vs.results) = 2

\* C27: the wait set after failed attempt k is 1000 ms * 2^(k-1); every
\* response that is not 2xx, like every network error, is followed by a wait
\* and one more attempt unless it was the last attempt allowed; the first 2xx
\* response is returned with no attempt after it; and the error of the last
\* attempt is thrown without a wait.
C27_BackoffDoubles ==
  rt.pc # "idle" =>
    LET n == Len(rt.responses) IN
    /\ \A k \in 1..Len(rt.waits) : rt.waits[k] = 1000 * 2^(k - 1)
    /\ \A k \in 1..(n - 1) : rt.responses[k] # "ok"
    /\ rt.pc = "fetching" => (Len(rt.waits) = n /\ rt.issued = n + 1)
    /\ rt.pc = "waiting" => (Len(rt.waits) = n /\ rt.issued = n /\ rt.responses[n] # "ok")
    /\ rt.pc = "returned" =>
         (rt.responses[n] = "ok" /\ rt.issued = n /\ Len(rt.waits) = n - 1)
    /\ rt.pc = "thrown" =>
         (rt.responses[n] # "ok" /\ rt.issued = n /\ Len(rt.waits) = n - 1
            /\ n = rt.maxRetries + 1)

\* A network error, a non-2xx response and a third failure were each waited
\* for (1, 2 and 4 s) before the fourth attempt of geocode got its 2xx.
C27_Witness ==
  /\ rt.pc = "returned" /\ rt.caller = "geocode"
  /\ rt.responses = <<"neterr", "non2xx", "non2xx", "ok">>
  /\ rt.waits = <<1000, 2000, 4000>>

\* C28: any two requests sent to the geocoder are at least 1 second apart,
\* also when geocode() is called while an earlier call is waiting in
\* rateLimitWait.
C28_RequestsOneSecondApart ==
  \A i, j \in 1..Len(geo.sent) : i < j => geo.sent[j] - geo.sent[i] >= 10

\* C29: every started run eventually ends with the loading state cleared,
\* provided that every network request and the worker eventually settle.
C29_RunEndsWithLoadingCleared ==
  \A r \in RunIds : Active(r) ~> (run[r].pc = "done" /\ ~ ui.isLoading)

\* The download of the tile `key` that tileImageCache holds has failed.
TileFailed(key) ==
  key \in DOMAIN tileImageCache /\ promises[tileImageCache[key]].st = "failed"

\* C30: while tileImageCache holds the failed download of a tile, no step but
\* clearElevationCache starts a new download of it or replaces its promise; a
\* call that waited for a failed download gives null for its uncached points
\* of that tile and throws exactly when none of its tiles loaded; and
\* clearElevationCache drops the promise, so that the next call that needs the
\* tile starts a new download.
C30_FailedTileStaysFailed ==
  [][/\ \A key \in AllTileKeys :
          /\ TileFailed(key) =>
               \/ key \notin DOMAIN tileImageCache' /\ downloads'[key] = 0
               \/ /\ key \in DOMAIN tileImageCache'
                  /\ tileImageCache'[key] = tileImageCache[key]
                  /\ downloads'[key] = downloads[key]
                  /\ \A id \in (Len(promises) + 1)..Len(promises') : promises'[id].key # key
          /\ (downloads[key] > 0 /\ downloads'[key] = 0) => tileImageCache' = <<>>
     /\ \A c \in Calls :
          LET k == tcall'[c] IN
          /\ (tcall[c].pc = "idle" /\ k.pc = "loading") =>
               \A key \in DOMAIN k.waits :
                 IF key \in DOMAIN tileImageCache
                 THEN k.waits[key] = tileImageCache[key]
                 ELSE /\ k.waits[key] > Len(promises)
                      /\ promises'[k.waits[key]] = [key |-> key, st |-> "pending"]
                      /\ downloads'[key] = 1
          /\ (tcall[c].pc = "loading" /\ k.pc \in {"returned", "thrown"}) =>
               /\ \A m \in 1..Len(k.uncachedIndices) :
                    LET idx == k.uncachedIndices[m] IN
                    promises[k.waits[TileKeyOf(k.points[idx])]].st = "failed"
                      => k.results[idx].elevation = Null
               /\ k.pc = "thrown" <=>
                    \A key \in DOMAIN k.waits : promises[k.waits[key]].st = "failed"
    ]_vars

\* A tile failed to load and a call that waited for it threw; the cache was
\* cleared, the tile was downloaded again and loaded, and a call returned.
C30_Witness ==
  \E key \in AllTileKeys :
    /\ Len(promises) = 2
    /\ promises[1] = [key |-> key, st |-> "failed"]
    /\ promises[2] = [key |-> key, st |-> "loaded"]
    /\ key \in DOMAIN tileImageCache /\ tileImageCache[key] = 2 /\ downloads[key] = 1
    /\ \E c \in Calls :
         /\ tcall[c].pc = "thrown"
         /\ key \in DOMAIN tcall[c].waits /\ tcall[c].waits[key] = 1
    /\ \E c \in Calls :
         /\ tcall[c].pc = "returned"
         /\ key \in DOMAIN tcall[c].waits /\ tcall[c].waits[key] = 2

====
